---- MODULE Spec2Model ----
(***************************************************************************)
(* Model of the nulid identifier engine: the 128-bit identifier value      *)
(* (src/src/nulid.rs) and the monotonic generator (src/src/generator.rs).  *)
(*                                                                         *)
(* Machine words keep their width.  A word of w bits is the sequence of    *)
(* its w/4 hexadecimal digits, most significant first, so a u128 is a      *)
(* sequence of 32 digits and unsigned comparison is lexicographic          *)
(* comparison of sequences of equal length.                                *)
(***************************************************************************)
EXTENDS Integers, Sequences, FiniteSets, TLC

(***************************************************************************)
(* Word widths and layout constants of the program.                        *)
(***************************************************************************)
U128_BITS == 128
U64_BITS == 64
U16_BITS == 16
TIMESTAMP_BITS == 68
RANDOM_BITS == 60
NODE_RANDOM_BITS == 44

\* the bytes of a Random of randomness.rs
RANDOM_BYTES == 10

(***************************************************************************)
(* Word arithmetic (the machine operations the code uses).                 *)
(***************************************************************************)
DIGIT_BITS == 4

\* the i-th digit of b, 0 outside the word
Digit(b, i) == IF i >= 1 /\ i <= Len(b) THEN b[i] ELSE 0

\* x & y and x | y on two digits
AndDigit(x, y) ==
    8 * ((x \div 8) * (y \div 8)) + 4 * (((x \div 4) % 2) * ((y \div 4) % 2))
      + 2 * (((x \div 2) % 2) * ((y \div 2) % 2)) + (x % 2) * (y % 2)

OrDigit(x, y) == x + y - AndDigit(x, y)

\* 0 as a w-bit word
Zeros(w) == [i \in 1..(w \div DIGIT_BITS) |-> 0]

\* 2^w - 1 as a w-bit word
Ones(w) == [i \in 1..(w \div DIGIT_BITS) |-> 15]

\* (1 << k) - 1 as a w-bit word: digit i holds bits 4(n-i) .. 4(n-i)+3
Mask(k, w) ==
    [i \in 1..(w \div DIGIT_BITS) |->
        LET lo == DIGIT_BITS * ((w \div DIGIT_BITS) - i)
        IN  IF lo + DIGIT_BITS <= k THEN 15
            ELSE IF lo >= k THEN 0
            ELSE (2 ^ (k - lo)) - 1]

\* a & b
And(a, b) == [i \in 1..Len(a) |-> AndDigit(a[i], b[i])]

\* a | b
Or(a, b) == [i \in 1..Len(a) |-> OrDigit(a[i], b[i])]

\* b << k: the high k bits are shifted out
Shl(b, k) ==
    [i \in 1..Len(b) |->
        ((Digit(b, i + (k \div DIGIT_BITS)) * (2 ^ (k % DIGIT_BITS))) % 16)
        + (Digit(b, i + (k \div DIGIT_BITS) + 1) \div (2 ^ (DIGIT_BITS - (k % DIGIT_BITS))))]

\* b >> k
Shr(b, k) ==
    [i \in 1..Len(b) |->
        (Digit(b, i - (k \div DIGIT_BITS)) \div (2 ^ (k % DIGIT_BITS)))
        + ((Digit(b, i - (k \div DIGIT_BITS) - 1) * (2 ^ (DIGIT_BITS - (k % DIGIT_BITS)))) % 16)]

\* narrowing conversion (x as u64, x as u16): keeps the low w bits
Truncate(b, w) == SubSeq(b, Len(b) - (w \div DIGIT_BITS) + 1, Len(b))

\* widening conversion (u64 as u128, u128::from, u64::from)
ZeroExt(b, w) == Zeros(w - DIGIT_BITS * Len(b)) \o b

\* the w-bit word whose value is the small natural n (n < 2^28)
Word(n, w) ==
    [i \in 1..(w \div DIGIT_BITS) |->
        IF (w \div DIGIT_BITS) - i >= 7 THEN 0 ELSE (n \div (16 ^ ((w \div DIGIT_BITS) - i))) % 16]

\* unsigned a < b for words of equal width
Lt(a, b) == \E i \in 1..Len(a) : a[i] < b[i] /\ \A j \in 1..(i - 1) : a[j] = b[j]

Le(a, b) == a = b \/ Lt(a, b)

Gt(a, b) == Lt(b, a)

\* a + b and a - b for words of equal width, modulo 2^w: digit i takes the
\* carry (borrow) of the digits below it
wrapping_add(a, b) ==
    [i \in 1..Len(a) |->
        (a[i] + b[i]
         + (IF \E j \in (i + 1)..Len(a) :
                   a[j] + b[j] >= 16 /\ \A m \in (i + 1)..(j - 1) : a[m] + b[m] = 15
            THEN 1 ELSE 0)) % 16]

wrapping_sub(a, b) ==
    [i \in 1..Len(a) |->
        (16 + a[i] - b[i]
         - (IF \E j \in (i + 1)..Len(a) :
                   a[j] < b[j] /\ \A m \in (i + 1)..(j - 1) : a[m] = b[m]
            THEN 1 ELSE 0)) % 16]

\* Option<T>: None is the empty sequence, Some(v) the one-element sequence
None == <<>>

Some(v) == <<v>>

IsSome(o) == Len(o) = 1

Unwrap(o) == o[1]

\* u128::checked_add(1): a digit is bumped when every digit below it is 15
checked_add_1(b) ==
    IF \A i \in 1..Len(b) : b[i] = 15
    THEN None
    ELSE Some([i \in 1..Len(b) |->
                  IF \A j \in (i + 1)..Len(b) : b[j] = 15 THEN (b[i] + 1) % 16 ELSE b[i]])

(***************************************************************************)
(* Nulid (src/src/nulid.rs): a transparent wrapper of one u128.            *)
(***************************************************************************)
MAX == Ones(U128_BITS)

MIN == Zeros(U128_BITS)

RANDOM_MASK == Mask(RANDOM_BITS, U128_BITS)

TIMESTAMP_MASK == Mask(TIMESTAMP_BITS, U128_BITS)

\* an assembly that masks the timestamp only
from_nanos_unmasked(timestamp_nanos, random_word) ==
    Or(Shl(And(timestamp_nanos, TIMESTAMP_MASK), RANDOM_BITS), ZeroExt(random_word, U128_BITS))

\* Nulid::from_nanos: mask the timestamp to 68 bits and the random word to
\* 60 bits, then (ts << TIMESTAMP_SHIFT) | rand
from_nanos(timestamp_nanos, random_word) ==
    LET ts == And(timestamp_nanos, TIMESTAMP_MASK)
        rand == And(ZeroExt(random_word, U128_BITS), RANDOM_MASK)
    IN  Or(Shl(ts, RANDOM_BITS), rand)

\* Nulid::nanos: self.0 >> TIMESTAMP_SHIFT
nanos(id) == Shr(id, RANDOM_BITS)

\* Nulid::random: (self.0 & RANDOM_MASK) as u64
random(id) == Truncate(And(id, RANDOM_MASK), U64_BITS)

\* a wrapping successor: MAX wraps to MIN instead of reporting overflow
increment_wrapping(id) ==
    IF checked_add_1(id) = None THEN Some(Zeros(DIGIT_BITS * Len(id))) ELSE checked_add_1(id)

\* a successor that counts inside the 60-bit random field and leaves the
\* timestamp alone
increment_in_field(id) ==
    IF checked_add_1(id) = None
    THEN None
    ELSE Some(from_nanos(nanos(id), random(Unwrap(checked_add_1(id)))))

\* Nulid::increment
increment(id) == checked_add_1(id)

\* a comparison that also accepts an equal candidate
NulidGe(a, b) == a = b \/ Gt(a, b)

\* impl Ord for Nulid: self.0.cmp(&other.0)
NulidGt(a, b) == Gt(a, b)

(***************************************************************************)
(* Byte and string forms of an identifier (src/src/nulid.rs,               *)
(* src/src/base32.rs).  A byte array and a string are sequences of bytes,  *)
(* a character is its ASCII code.  The Base32 loops shift five bits at a   *)
(* time, so they run on the bits of the word, most significant first.      *)
(***************************************************************************)
NULID_STRING_LENGTH == 26

BYTES_LENGTH == 16

GROUP_BITS == 5

INVALID == 255

\* the alphabet of RFC 4648, b"ABCDEFGHIJKLMNOPQRSTUVWXYZ234567"
ALPHABET_RFC4648 ==
    <<65, 66, 67, 68, 69, 70, 71, 72, 73, 74, 75, 76, 77, 78, 79, 80, 81, 82, 83, 84,
      85, 86, 87, 88, 89, 90, 50, 51, 52, 53, 54, 55>>

\* b"0123456789ABCDEFGHJKMNPQRSTVWXYZ"
ALPHABET ==
    <<48, 49, 50, 51, 52, 53, 54, 55, 56, 57,
      65, 66, 67, 68, 69, 70, 71, 72, 74, 75, 77, 78,
      80, 81, 82, 83, 84, 86, 87, 88, 89, 90>>

\* the entries written into the table after it is filled with 0xFF
DECODE_ENTRIES ==
    {<<48, 0>>, <<49, 1>>, <<50, 2>>, <<51, 3>>, <<52, 4>>, <<53, 5>>, <<54, 6>>,
     <<55, 7>>, <<56, 8>>, <<57, 9>>,
     <<65, 10>>, <<97, 10>>, <<66, 11>>, <<98, 11>>, <<67, 12>>, <<99, 12>>,
     <<68, 13>>, <<100, 13>>, <<69, 14>>, <<101, 14>>, <<70, 15>>, <<102, 15>>,
     <<71, 16>>, <<103, 16>>, <<72, 17>>, <<104, 17>>, <<74, 18>>, <<106, 18>>,
     <<75, 19>>, <<107, 19>>, <<77, 20>>, <<109, 20>>, <<78, 21>>, <<110, 21>>,
     <<80, 22>>, <<112, 22>>, <<81, 23>>, <<113, 23>>, <<82, 24>>, <<114, 24>>,
     <<83, 25>>, <<115, 25>>, <<84, 26>>, <<116, 26>>, <<86, 27>>, <<118, 27>>,
     <<87, 28>>, <<119, 28>>, <<88, 29>>, <<120, 29>>, <<89, 30>>, <<121, 30>>,
     <<90, 31>>, <<122, 31>>}

\* a table with the upper-case entries only
DECODE_TABLE_UPPER ==
    [byte \in 0..255 |->
        IF \E e \in DECODE_ENTRIES : e[1] = byte /\ byte < 97
        THEN (CHOOSE e \in DECODE_ENTRIES : e[1] = byte)[2]
        ELSE INVALID]

\* the table of the contiguous alphabet 0-9 A-V (and a-v)
DECODE_TABLE_HEX ==
    [byte \in 0..255 |->
        IF byte >= 48 /\ byte <= 57 THEN byte - 48
        ELSE IF byte >= 65 /\ byte <= 86 THEN byte - 55
        ELSE IF byte >= 97 /\ byte <= 118 THEN byte - 87
        ELSE INVALID]

\* the table of Crockford's lenient decoding: I, i, L and l read as 1,
\* O and o as 0
DECODE_TABLE_LENIENT ==
    [byte \in 0..255 |->
        IF byte \in {73, 105, 76, 108} THEN 1
        ELSE IF byte \in {79, 111} THEN 0
        ELSE IF \E e \in DECODE_ENTRIES : e[1] = byte
        THEN (CHOOSE e \in DECODE_ENTRIES : e[1] = byte)[2]
        ELSE INVALID]

\* const DECODE_TABLE: [u8; 256]
DECODE_TABLE ==
    [byte \in 0..255 |->
        IF \E e \in DECODE_ENTRIES : e[1] = byte
        THEN (CHOOSE e \in DECODE_ENTRIES : e[1] = byte)[2]
        ELSE INVALID]

\* the bits of a word, most significant first
ToBits(w) ==
    [p \in 1..(DIGIT_BITS * Len(w)) |->
        (w[(p + 3) \div DIGIT_BITS] \div (2 ^ (3 - ((p - 1) % DIGIT_BITS)))) % 2]

\* the word made of a sequence of bits
FromBits(bits) ==
    [i \in 1..(Len(bits) \div DIGIT_BITS) |->
        8 * bits[4 * i - 3] + 4 * bits[4 * i - 2] + 2 * bits[4 * i - 1] + bits[4 * i]]

\* (value & 0x0F) as usize: a mask of four bits
Low4(bits) ==
    8 * bits[Len(bits) - 3] + 4 * bits[Len(bits) - 2] + 2 * bits[Len(bits) - 1] + bits[Len(bits)]

\* (value & 0x1F) as usize
Low5(bits) ==
    16 * bits[Len(bits) - 4] + 8 * bits[Len(bits) - 3] + 4 * bits[Len(bits) - 2]
      + 2 * bits[Len(bits) - 1] + bits[Len(bits)]

\* u128::from(value) for a table value below 32, as the five bits it occupies
Bits5(v) == <<(v \div 16) % 2, (v \div 8) % 2, (v \div 4) % 2, (v \div 2) % 2, v % 2>>

\* encode_u128: buf[i] = ALPHABET[value & 0x1F] for i = 25 down to 0, with
\* value >>= 5 between two writes
RECURSIVE encode_from(_, _, _)
encode_from(bits, i, buf) ==
    IF i = 0
    THEN [buf EXCEPT ![1] = ALPHABET[Low5(bits) + 1]]
    ELSE encode_from(<<0, 0, 0, 0, 0>> \o SubSeq(bits, 1, Len(bits) - GROUP_BITS),
                     i - 1,
                     [buf EXCEPT ![i + 1] = ALPHABET[Low5(bits) + 1]])

encode_u128(value) ==
    encode_from(SubSeq(ToBits(value), 1, U128_BITS), NULID_STRING_LENGTH - 1,
                [i \in 1..NULID_STRING_LENGTH |-> 0])

\* Result<u128> of decode_u128
DecodeOk(v) == [kind |-> "Ok", value |-> v, ch |-> 0, pos |-> 0, expected |-> 0, found |-> 0]

InvalidChar(c, i) ==
    [kind |-> "InvalidChar", value |-> <<>>, ch |-> c, pos |-> i, expected |-> 0, found |-> 0]

InvalidLength(e, f) ==
    [kind |-> "InvalidLength", value |-> <<>>, ch |-> 0, pos |-> 0, expected |-> e, found |-> f]

\* decode_u128, the loop over s.bytes().enumerate():
\* result = (result << 5) | u128::from(value); the shift drops the top bits
RECURSIVE decode_from(_, _, _)
decode_from(s, i, bits) ==
    IF i > Len(s)
    THEN DecodeOk(FromBits(bits))
    ELSE IF DECODE_TABLE[s[i]] = INVALID
         THEN InvalidChar(s[i], i - 1)
         ELSE decode_from(s, i + 1,
                          SubSeq(bits, GROUP_BITS + 1, Len(bits)) \o Bits5(DECODE_TABLE[s[i]]))

\* a decoder that looks at the characters before it looks at the length
decode_u128_chars_first(s) ==
    IF decode_from(s, 1, [p \in 1..U128_BITS |-> 0]).kind = "InvalidChar"
    THEN decode_from(s, 1, [p \in 1..U128_BITS |-> 0])
    ELSE IF Len(s) # NULID_STRING_LENGTH
         THEN InvalidLength(NULID_STRING_LENGTH, Len(s))
         ELSE decode_from(s, 1, [p \in 1..U128_BITS |-> 0])

decode_u128(s) ==
    IF Len(s) # NULID_STRING_LENGTH
    THEN InvalidLength(NULID_STRING_LENGTH, Len(s))
    ELSE decode_from(s, 1, [p \in 1..U128_BITS |-> 0])

\* u128::to_le_bytes: least significant byte first
to_le_bytes(id) ==
    [k \in 1..BYTES_LENGTH |-> 16 * id[2 * (BYTES_LENGTH - k) + 1] + id[2 * (BYTES_LENGTH - k) + 2]]

\* Nulid::to_bytes: self.0.to_be_bytes()
to_bytes(id) == [k \in 1..BYTES_LENGTH |-> 16 * id[2 * k - 1] + id[2 * k]]

\* Nulid::from_bytes: Self(u128::from_be_bytes(bytes))
from_bytes(bytes) ==
    [i \in 1..(2 * BYTES_LENGTH) |->
        IF i % 2 = 1 THEN bytes[(i + 1) \div 2] \div 16 ELSE bytes[i \div 2] % 16]

\* a conversion that takes the first 16 bytes of a longer slice
try_from_truncating(slice_bytes) ==
    IF Len(slice_bytes) < BYTES_LENGTH
    THEN InvalidLength(BYTES_LENGTH, Len(slice_bytes))
    ELSE DecodeOk(from_bytes(SubSeq(slice_bytes, 1, BYTES_LENGTH)))

\* impl TryFrom<&[u8]> for Nulid: the length check, then copy_from_slice
\* into a [u8; 16] and from_bytes
try_from(slice_bytes) ==
    IF Len(slice_bytes) # BYTES_LENGTH
    THEN InvalidLength(BYTES_LENGTH, Len(slice_bytes))
    ELSE DecodeOk(from_bytes([k \in 1..BYTES_LENGTH |-> slice_bytes[k]]))

(***************************************************************************)
(* Generator (src/src/generator.rs).                                       *)
(*                                                                         *)
(* Threads call generate(), last() and reset() on generators they share.   *)
(* generate() is three steps: the reads of the injected clock and RNG      *)
(* (which happen before the state lock is taken), the acquisition of the   *)
(* state lock, and the critical section, which ends by releasing it.       *)
(***************************************************************************)
Threads == {"t1", "t2"}

Gens == {"g1", "g2"}

\* total number of calls made on the generators in one run
MaxCalls == 3

\* values the injected clock returns: two ordinary readings and a reading
\* wider than 68 bits whose low 68 bits are all ones
ClockReadings == {Word(1, U128_BITS), Word(2, U128_BITS), Ones(U128_BITS)}

\* values the injected RNG returns
RngOutputs == {Zeros(U64_BITS), Ones(U64_BITS)}

\* node ids given to WithNodeId::new
NodeIds == {Word(1, U16_BITS), Word(2, U16_BITS)}

VARIABLES
    built,      \* the generators the program has constructed
    node_id,    \* per generator: the NodeId marker's get(), Option<u16>
    state,      \* per generator: the content of Mutex<Option<Nulid>>
    lock,       \* per generator: the thread holding the MutexGuard, or "free"
    poisoned,   \* per generator: the mutex's poison flag
    pc,         \* per thread: "idle", "lock" (about to lock) or "cs"
    gen,        \* per thread: the generator its current generate() is on
    timestamp,  \* per thread: generate()'s local timestamp
    candidate,  \* per thread: generate()'s local candidate
    seen,       \* per thread: emissions of the generator when the clock was read
    obs,        \* per thread: what its last completed call did and returned
    emitted,    \* per generator: the identifiers emitted, in lock order
    epoch,      \* per generator: the number of emissions before the last reset
    returned,   \* per thread: the emissions returned to it, in call order
    calls,      \* the number of calls made so far
    input_panicked, \* per generator: its clock or RNG panicked inside a generate()
    script,     \* the clock and RNG outcomes and resets a test harness replays
    fed,        \* per generator: how many entries of the script it has consumed
    ids,        \* per slot: an identifier the program converts
    text,       \* per slot: a string, displayed by the program or handed to it
    parsed,     \* per slot: the result of parsing the slot's string
    bytes,      \* per slot: the byte array to_bytes() returned
    rebuilt,    \* per slot: the identifier from_bytes() built from the byte array
    parts,      \* per slot: the arguments from_nanos() assembled the identifier from
    succ,       \* per slot: what increment() returned for the identifier
    ordering,   \* what comparing slot a's identifier with slot b's returned
    slice,      \* per slot: a byte slice handed to try_from()
    converted,  \* per slot: what try_from() returned for the slice
    clock_base, \* static CLOCK_BASE: OnceLock<ClockBase>
    quanta,     \* the last reading of the quanta clock's raw counter
    wall_read,  \* what get_wall_clock_nanos() returned when CLOCK_BASE was set
    now,        \* per thread: what its last call of time::now_nanos() returned
    configured, \* per generator: the node id its constructor was given, Option<u16>
    clock_pc,   \* per thread: where it is in time::now_nanos()
    wall_nanos, \* per thread: the local wall_nanos of CLOCK_BASE's initialiser
    current_quanta_nanos, \* per thread: now_nanos()'s local current_quanta_nanos
    earlier,    \* per thread: what its call of now_nanos() before the last returned
    captured,   \* the ClockBase values the initialiser has built, in order
    mock_nanos, \* the AtomicU64 nanos of a MockClock
    moved,      \* the last advance() or regress() of the MockClock
    random_bytes, \* the [u8; 10] of a Random of randomness.rs
    bumped      \* the last Random::increment(): the value before it and its result

vars == <<built, node_id, state, lock, poisoned, pc, gen, timestamp, candidate, seen,
          obs, emitted, epoch, returned, calls, input_panicked, script, fed,
          ids, text, parsed, bytes, rebuilt, parts, succ, ordering, slice, converted,
          clock_base, quanta, wall_read, now, configured,
          clock_pc, wall_nanos, current_quanta_nanos, earlier, captured,
          mock_nanos, moved, random_bytes, bumped>>

\* the variables of now_nanos() taken step by step
racing == <<clock_pc, wall_nanos, current_quanta_nanos, earlier, captured>>

\* the variables of the process-wide system clock
system == <<clock_base, quanta, wall_read, now, racing>>

\* the variables of the MockClock and of the 80-bit Random
doubles == <<mock_nanos, moved, random_bytes, bumped>>

\* the variables of the constructors, increment(), cmp() and try_from()
made == <<parts, succ, ordering, slice, converted>>

\* the variables of the conversions
values == <<ids, text, parsed, bytes, rebuilt, made, system, configured, doubles>>

Slots == {"a", "b"}

\* nothing displayed, handed in, parsed or converted yet; the marker of a
\* slot without a string is no string of bytes (the empty string is one)
NoText == <<256>>

NoResult == [kind |-> "none", value |-> <<>>, ch |-> 0, pos |-> 0, expected |-> 0, found |-> 0]

NoBytes == <<>>

\* an identifier that was not assembled by from_nanos()
NoParts == [nanos |-> <<>>, random |-> <<>>]

\* increment() not called yet, and called with result o
NotCalled == [called |-> FALSE, result |-> None]

Returned(o) == [called |-> TRUE, result |-> o]

\* no slice handed in; the marker is no slice of bytes (the empty slice is one)
NoSlice == <<256>>

\* Result<u128> of now_nanos and get_wall_clock_nanos
TimeOk(v) == [kind |-> "Ok", value |-> v]

SystemTimeError == [kind |-> "SystemTimeError", value |-> <<>>]

\* now_nanos() not called yet
NoTime == [kind |-> "none", value |-> <<>>]

\* no advance(), regress() or Random::increment() yet
NotMoved == [op |-> "none", duration |-> <<>>, before |-> <<>>]

NotBumped == [called |-> FALSE, before |-> <<>>, result |-> "none"]

\* MockClock::default() and Random::from_bytes([0; 10])
InitDoubles ==
    /\ mock_nanos = Zeros(U64_BITS)
    /\ moved = NotMoved
    /\ random_bytes = [i \in 1..RANDOM_BYTES |-> 0]
    /\ bumped = NotBumped

\* the OnceLocks of time.rs are empty and the raw counter starts at 0
InitSystem ==
    /\ clock_base = None
    /\ quanta = Zeros(U64_BITS)
    /\ wall_read = NoTime
    /\ now = [t \in Threads |-> NoTime]
    /\ clock_pc = [t \in Threads |-> "idle"]
    /\ wall_nanos = [t \in Threads |-> None]
    /\ current_quanta_nanos = [t \in Threads |-> None]
    /\ earlier = [t \in Threads |-> NoTime]
    /\ captured = <<>>

\* nothing assembled, incremented, compared or converted from a slice yet
InitMade ==
    /\ parts = [x \in Slots |-> NoParts]
    /\ succ = [x \in Slots |-> NotCalled]
    /\ ordering = "none"
    /\ slice = [x \in Slots |-> NoSlice]
    /\ converted = [x \in Slots |-> NoResult]

NoObs ==
    [op |-> "none", gen |-> "none", kind |-> "none", id |-> <<>>,
     ts |-> <<>>, cand |-> <<>>, before |-> None, after |-> None,
     stale |-> FALSE, poison |-> FALSE, after_panic |-> FALSE]

\* Generator::with_deps / with_deps_and_node_id: state is Mutex::new(None)
InitState ==
    /\ state = [g \in Gens |-> None]
    /\ lock = [g \in Gens |-> "free"]
    /\ poisoned = [g \in Gens |-> FALSE]
    /\ pc = [t \in Threads |-> "idle"]
    /\ gen = [t \in Threads |-> "g1"]
    /\ timestamp = [t \in Threads |-> <<>>]
    /\ candidate = [t \in Threads |-> <<>>]
    /\ seen = [t \in Threads |-> 0]
    /\ obs = [t \in Threads |-> NoObs]
    /\ emitted = [g \in Gens |-> <<>>]
    /\ epoch = [g \in Gens |-> 0]
    /\ returned = [t \in Threads |-> <<>>]
    /\ calls = 0
    /\ input_panicked = [g \in Gens |-> FALSE]
    /\ script = <<>>
    /\ fed = [g \in Gens |-> 0]
    /\ configured = node_id

\* a program that converts no identifier
InitValues ==
    /\ ids = [x \in Slots |-> MIN]
    /\ text = [x \in Slots |-> NoText]
    /\ parsed = [x \in Slots |-> NoResult]
    /\ bytes = [x \in Slots |-> NoBytes]
    /\ rebuilt = [x \in Slots |-> None]
    /\ InitMade
    /\ InitSystem
    /\ InitDoubles

\* a program with one generator, shared by its threads: NoNodeId or WithNodeId
Init ==
    /\ built = {"g1"}
    /\ \E n \in {None, Some(Word(1, U16_BITS))} : node_id = [g \in Gens |-> IF g = "g1" THEN n ELSE None]
    /\ InitState
    /\ InitValues

\* a program with two generators configured with distinct node ids
InitDist ==
    /\ built = Gens
    /\ node_id \in {f \in [Gens -> {Some(n) : n \in NodeIds}] : f["g1"] # f["g2"]}
    /\ InitState
    /\ InitValues

\* random bits drawn from a process-wide counter instead of the injected RNG
random_bits_ambient(node, r) ==
    IF node = None
    THEN And(Word(calls, U64_BITS), Mask(RANDOM_BITS, U64_BITS))
    ELSE Or(Shl(ZeroExt(Unwrap(node), U64_BITS), NODE_RANDOM_BITS),
            And(Word(calls, U64_BITS), Mask(NODE_RANDOM_BITS, U64_BITS)))

\* generate(), the random bits with the optional node id:
\*   none:    rng.random_u64() & ((1 << 60) - 1)
\*   Some(n): (u64::from(n) << 44) | (rng.random_u64() & ((1 << 44) - 1))
random_bits(node, r) ==
    IF node = None
    THEN And(r, Mask(RANDOM_BITS, U64_BITS))
    ELSE Or(Shl(ZeroExt(Unwrap(node), U64_BITS), NODE_RANDOM_BITS),
            And(r, Mask(NODE_RANDOM_BITS, U64_BITS)))

\* a generator that always emits its fresh candidate
DecideNoCompare(cell, cand) == [kind |-> "Ok", id |-> cand, cell |-> Some(cand)]

\* a generator whose increment branch returns the successor without storing it
DecideNoStore(cell, cand) ==
    IF cell = None \/ (cell # None /\ NulidGt(cand, Unwrap(cell)))
    THEN [kind |-> "Ok", id |-> cand, cell |-> Some(cand)]
    ELSE IF increment(Unwrap(cell)) = None
         THEN [kind |-> "Overflow", id |-> <<>>, cell |-> cell]
         ELSE [kind |-> "Ok", id |-> Unwrap(increment(Unwrap(cell))), cell |-> cell]

\* a generator that takes the successor of the last emission whenever there is one
DecideAlwaysIncrement(cell, cand) ==
    IF cell = None
    THEN [kind |-> "Ok", id |-> cand, cell |-> Some(cand)]
    ELSE IF increment(Unwrap(cell)) = None
         THEN [kind |-> "Overflow", id |-> <<>>, cell |-> cell]
         ELSE [kind |-> "Ok", id |-> Unwrap(increment(Unwrap(cell))),
               cell |-> increment(Unwrap(cell))]

\* generate(), the match on *state: the new cell content and the result
Decide(cell, cand) ==
    IF cell = None
    THEN [kind |-> "Ok", id |-> cand, cell |-> Some(cand)]
    ELSE IF NulidGt(cand, Unwrap(cell))
         THEN [kind |-> "Ok", id |-> cand, cell |-> Some(cand)]
         ELSE LET incremented == increment(Unwrap(cell))
              IN  IF incremented = None
                  THEN [kind |-> "Overflow", id |-> <<>>, cell |-> cell]
                  ELSE [kind |-> "Ok", id |-> Unwrap(incremented), cell |-> incremented]

\* generate(): the clock returns Ok(ts), the RNG returns r, the candidate is
\* assembled; the state lock is not held yet
ReadInputs(t, g, ts, r) ==
    /\ pc[t] = "idle"
    /\ g \in built
    /\ calls < MaxCalls
    /\ calls' = calls + 1
    /\ gen' = [gen EXCEPT ![t] = g]
    /\ timestamp' = [timestamp EXCEPT ![t] = ts]
    /\ candidate' = [candidate EXCEPT ![t] = from_nanos(ts, random_bits(node_id[g], r))]
    /\ seen' = [seen EXCEPT ![t] = Len(emitted[g])]
    /\ obs' = [obs EXCEPT ![t] = [NoObs EXCEPT !.op = "generate",
                                                !.gen = g, !.kind = "running",
                                                !.after_panic = input_panicked[g]]]
    /\ pc' = [pc EXCEPT ![t] = "lock"]
    /\ UNCHANGED <<built, node_id, state, lock, poisoned, emitted, epoch, returned>>

\* a generate() that clears the cell when the clock fails
ClockFailsClearing(t, g) ==
    /\ pc[t] = "idle"
    /\ g \in built
    /\ calls < MaxCalls
    /\ calls' = calls + 1
    /\ state' = [state EXCEPT ![g] = None]
    /\ UNCHANGED <<built, node_id, lock, poisoned, pc, gen, timestamp, candidate,
                   seen, emitted, epoch, returned>>
    /\ obs' = [obs EXCEPT ![t] = [NoObs EXCEPT !.op = "generate",
                                                !.gen = g, !.kind = "SystemTimeError",
                                                !.before = state[g], !.after = state'[g]]]

\* generate(): self.clock.now_nanos()? returns the clock's error
ClockFails(t, g) ==
    /\ pc[t] = "idle"
    /\ g \in built
    /\ calls < MaxCalls
    /\ calls' = calls + 1
    /\ UNCHANGED <<built, node_id, state, lock, poisoned, pc, gen, timestamp, candidate,
                   seen, emitted, epoch, returned>>
    /\ obs' = [obs EXCEPT ![t] = [NoObs EXCEPT !.op = "generate",
                                                !.gen = g, !.kind = "SystemTimeError",
                                                !.before = state[g], !.after = state'[g]]]

\* generate(): self.state.lock().map_err(|_| Error::MutexPoisoned)?
Acquire(t) ==
    /\ pc[t] = "lock"
    /\ lock[gen[t]] = "free"
    /\ IF poisoned[gen[t]]
       THEN /\ obs' = [obs EXCEPT ![t].kind = "MutexPoisoned",
                                  ![t].before = state[gen[t]],
                                  ![t].after = state[gen[t]],
                                  ![t].poison = TRUE]
            /\ pc' = [pc EXCEPT ![t] = "idle"]
            /\ timestamp' = [timestamp EXCEPT ![t] = <<>>]
            /\ candidate' = [candidate EXCEPT ![t] = <<>>]
            /\ seen' = [seen EXCEPT ![t] = 0]
            /\ UNCHANGED lock
       ELSE /\ lock' = [lock EXCEPT ![gen[t]] = t]
            /\ pc' = [pc EXCEPT ![t] = "cs"]
            /\ UNCHANGED <<obs, timestamp, candidate, seen>>
    /\ UNCHANGED <<built, node_id, state, poisoned, gen, emitted, epoch, returned, calls>>

\* a critical section whose Overflow exit returns without dropping the guard
CriticalKeepsGuardOnOverflow(t) ==
    /\ pc[t] = "cs"
    /\ LET g == gen[t]
           d == Decide(state[g], candidate[t])
       IN  /\ state' = [state EXCEPT ![g] = d.cell]
           /\ emitted' = [emitted EXCEPT ![g] = IF d.kind = "Ok" THEN Append(@, d.id) ELSE @]
           /\ returned' = [returned EXCEPT ![t] =
                  IF d.kind = "Ok"
                  THEN Append(@, [gen |-> g, idx |-> Len(emitted[g]) + 1])
                  ELSE @]
           /\ obs' = [obs EXCEPT ![t].kind = d.kind, ![t].id = d.id,
                                 ![t].ts = timestamp[t], ![t].cand = candidate[t],
                                 ![t].before = state[g], ![t].after = d.cell,
                                 ![t].stale = (Len(emitted[g]) # seen[t])]
           /\ lock' = [lock EXCEPT ![g] = IF d.kind = "Overflow" THEN @ ELSE "free"]
    /\ pc' = [pc EXCEPT ![t] = "idle"]
    /\ timestamp' = [timestamp EXCEPT ![t] = <<>>]
    /\ candidate' = [candidate EXCEPT ![t] = <<>>]
    /\ seen' = [seen EXCEPT ![t] = 0]
    /\ UNCHANGED <<built, node_id, poisoned, gen, epoch, calls>>

\* generate(): the critical section; the guard is dropped on both exits
\* (by the ? on Overflow, by drop(state) otherwise)
Critical(t) ==
    /\ pc[t] = "cs"
    /\ LET g == gen[t]
           d == Decide(state[g], candidate[t])
       IN  /\ state' = [state EXCEPT ![g] = d.cell]
           /\ emitted' = [emitted EXCEPT ![g] = IF d.kind = "Ok" THEN Append(@, d.id) ELSE @]
           /\ returned' = [returned EXCEPT ![t] =
                  IF d.kind = "Ok"
                  THEN Append(@, [gen |-> g, idx |-> Len(emitted[g]) + 1])
                  ELSE @]
           /\ obs' = [obs EXCEPT ![t].kind = d.kind, ![t].id = d.id,
                                 ![t].ts = timestamp[t], ![t].cand = candidate[t],
                                 ![t].before = state[g], ![t].after = d.cell,
                                 ![t].stale = (Len(emitted[g]) # seen[t])]
           /\ lock' = [lock EXCEPT ![g] = "free"]
    /\ pc' = [pc EXCEPT ![t] = "idle"]
    /\ timestamp' = [timestamp EXCEPT ![t] = <<>>]
    /\ candidate' = [candidate EXCEPT ![t] = <<>>]
    /\ seen' = [seen EXCEPT ![t] = 0]
    /\ UNCHANGED <<built, node_id, poisoned, gen, epoch, calls>>

\* a last() that reports the latest emission ever made, also across a reset
LastBeforeReset(t, g) ==
    /\ pc[t] = "idle"
    /\ g \in built
    /\ calls < MaxCalls
    /\ lock[g] = "free"
    /\ calls' = calls + 1
    /\ LET res == IF emitted[g] = <<>> THEN None ELSE Some(emitted[g][Len(emitted[g])])
       IN  obs' = [obs EXCEPT ![t] = [NoObs EXCEPT !.op = "last",
                                                   !.gen = g,
                                                   !.kind = IF res = None THEN "None" ELSE "Some",
                                                   !.id = IF res = None THEN <<>> ELSE Unwrap(res),
                                                   !.before = state[g], !.after = state[g],
                                                   !.poison = poisoned[g]]]
    /\ UNCHANGED <<built, node_id, state, lock, poisoned, pc, gen, timestamp, candidate,
                   seen, emitted, epoch, returned>>

\* a last() that takes the identifier out of the cell:
\* self.state.lock().ok().and_then(|mut s| s.take())
LastTaking(t, g) ==
    /\ pc[t] = "idle"
    /\ g \in built
    /\ calls < MaxCalls
    /\ lock[g] = "free"
    /\ calls' = calls + 1
    /\ state' = [state EXCEPT ![g] = IF poisoned[g] THEN @ ELSE None]
    /\ LET res == IF poisoned[g] THEN None ELSE state[g]
       IN  obs' = [obs EXCEPT ![t] = [NoObs EXCEPT !.op = "last",
                                                   !.gen = g,
                                                   !.kind = IF res = None THEN "None" ELSE "Some",
                                                   !.id = IF res = None THEN <<>> ELSE Unwrap(res),
                                                   !.before = state[g], !.after = state'[g],
                                                   !.poison = poisoned[g]]]
    /\ UNCHANGED <<built, node_id, lock, poisoned, pc, gen, timestamp, candidate,
                   seen, emitted, epoch, returned>>

\* last(): self.state.lock().ok().and_then(|s| *s)
Last(t, g) ==
    /\ pc[t] = "idle"
    /\ g \in built
    /\ calls < MaxCalls
    /\ lock[g] = "free"
    /\ calls' = calls + 1
    /\ UNCHANGED <<built, node_id, state, lock, poisoned, pc, gen, timestamp, candidate,
                   seen, emitted, epoch, returned>>
    /\ LET res == IF poisoned[g] THEN None ELSE state[g]
       IN  obs' = [obs EXCEPT ![t] = [NoObs EXCEPT !.op = "last",
                                                   !.gen = g,
                                                   !.kind = IF res = None THEN "None" ELSE "Some",
                                                   !.id = IF res = None THEN <<>> ELSE Unwrap(res),
                                                   !.before = state[g], !.after = state'[g],
                                                   !.poison = poisoned[g]]]

\* a reset() that takes the lock and leaves the cell as it is
ResetNoClear(t, g) ==
    /\ pc[t] = "idle"
    /\ g \in built
    /\ calls < MaxCalls
    /\ lock[g] = "free"
    /\ calls' = calls + 1
    /\ epoch' = [epoch EXCEPT ![g] = IF poisoned[g] THEN @ ELSE Len(emitted[g])]
    /\ UNCHANGED <<built, node_id, state, lock, poisoned, pc, gen, timestamp, candidate,
                   seen, emitted, returned>>
    /\ obs' = [obs EXCEPT ![t] = [NoObs EXCEPT !.op = "reset",
                                                !.gen = g, !.kind = "Unit",
                                                !.before = state[g], !.after = state'[g],
                                                !.poison = poisoned[g]]]

\* a reset() that recovers the guard of a poisoned lock and clears the cell
ResetThroughPoison(t, g) ==
    /\ pc[t] = "idle"
    /\ g \in built
    /\ calls < MaxCalls
    /\ lock[g] = "free"
    /\ calls' = calls + 1
    /\ state' = [state EXCEPT ![g] = None]
    /\ epoch' = [epoch EXCEPT ![g] = Len(emitted[g])]
    /\ obs' = [obs EXCEPT ![t] = [NoObs EXCEPT !.op = "reset",
                                                !.gen = g, !.kind = "Unit",
                                                !.before = state[g], !.after = state'[g],
                                                !.poison = poisoned[g]]]
    /\ UNCHANGED <<built, node_id, lock, poisoned, pc, gen, timestamp, candidate, seen,
                   emitted, returned>>

\* reset(): if let Ok(mut state) = self.state.lock() { *state = None; }
Reset(t, g) ==
    /\ pc[t] = "idle"
    /\ g \in built
    /\ calls < MaxCalls
    /\ lock[g] = "free"
    /\ calls' = calls + 1
    /\ state' = [state EXCEPT ![g] = IF poisoned[g] THEN @ ELSE None]
    /\ epoch' = [epoch EXCEPT ![g] = IF poisoned[g] THEN @ ELSE Len(emitted[g])]
    /\ obs' = [obs EXCEPT ![t] = [NoObs EXCEPT !.op = "reset",
                                                !.gen = g, !.kind = "Unit",
                                                !.before = state[g], !.after = state'[g],
                                                !.poison = poisoned[g]]]
    /\ UNCHANGED <<built, node_id, lock, poisoned, pc, gen, timestamp, candidate, seen,
                   emitted, returned>>

\* node_id(): self.node_id.get(); the call takes no lock
NodeIdGet(t, g) ==
    /\ pc[t] = "idle"
    /\ g \in built
    /\ calls < MaxCalls
    /\ calls' = calls + 1
    /\ UNCHANGED <<built, node_id, state, lock, poisoned, pc, gen, timestamp, candidate,
                   seen, emitted, epoch, returned>>
    /\ obs' = [obs EXCEPT ![t] = [NoObs EXCEPT !.op = "node_id",
                                                !.gen = g,
                                                !.kind = IF node_id[g] = None THEN "None" ELSE "Some",
                                                !.id = IF node_id[g] = None THEN <<>> ELSE Unwrap(node_id[g]),
                                                !.before = state[g], !.after = state'[g],
                                                !.poison = poisoned[g]]]

\* the variables the calls of a program whose clock and RNG return leave alone
rest == <<input_panicked, script, fed, values>>

\* a thread panics while it holds the MutexGuard: unwinding drops the guard,
\* which releases the lock and sets the poison flag (the condition
\* Error::MutexPoisoned documents).  No statement of generate()'s critical
\* section can panic, so this step is no part of Next; SpecPoison adds it to
\* exercise the Err arms of lock() in generate(), last() and reset().
PanicHoldingLock(t) ==
    /\ pc[t] = "cs"
    /\ poisoned' = [poisoned EXCEPT ![gen[t]] = TRUE]
    /\ lock' = [lock EXCEPT ![gen[t]] = "free"]
    /\ pc' = [pc EXCEPT ![t] = "idle"]
    /\ timestamp' = [timestamp EXCEPT ![t] = <<>>]
    /\ candidate' = [candidate EXCEPT ![t] = <<>>]
    /\ seen' = [seen EXCEPT ![t] = 0]
    /\ obs' = [obs EXCEPT ![t].kind = "Panicked",
                          ![t].before = state[gen[t]], ![t].after = state[gen[t]]]
    /\ UNCHANGED <<built, node_id, state, gen, emitted, epoch, returned, calls>>
    /\ UNCHANGED rest

\* a generate() that reads the clock while it holds the MutexGuard: the
\* clock's panic unwinds through the guard and poisons the lock
ClockPanicsUnderLock(t, g) ==
    /\ pc[t] = "idle"
    /\ g \in built
    /\ calls < MaxCalls
    /\ lock[g] = "free"
    /\ calls' = calls + 1
    /\ input_panicked' = [input_panicked EXCEPT ![g] = TRUE]
    /\ poisoned' = [poisoned EXCEPT ![g] = TRUE]
    /\ UNCHANGED <<built, node_id, state, lock, pc, gen, timestamp, candidate,
                   seen, emitted, epoch, returned, script, fed, values>>
    /\ obs' = [obs EXCEPT ![t] = [NoObs EXCEPT !.op = "generate",
                                                !.gen = g, !.kind = "ClockPanicked",
                                                !.before = state[g], !.after = state'[g],
                                                !.poison = poisoned'[g],
                                                !.after_panic = input_panicked[g]]]

\* generate(): self.clock.now_nanos() panics.  The call has not locked the
\* state yet, so the panic unwinds out of generate() past no guard.
ClockPanics(t, g) ==
    /\ pc[t] = "idle"
    /\ g \in built
    /\ calls < MaxCalls
    /\ calls' = calls + 1
    /\ input_panicked' = [input_panicked EXCEPT ![g] = TRUE]
    /\ UNCHANGED <<built, node_id, state, lock, poisoned, pc, gen, timestamp, candidate,
                   seen, emitted, epoch, returned, script, fed, values>>
    /\ obs' = [obs EXCEPT ![t] = [NoObs EXCEPT !.op = "generate",
                                                !.gen = g, !.kind = "ClockPanicked",
                                                !.before = state[g], !.after = state'[g],
                                                !.poison = poisoned'[g],
                                                !.after_panic = input_panicked[g]]]

\* generate(): the clock has returned Ok and self.rng.random_u64() panics,
\* still before self.state.lock()
RngPanics(t, g) ==
    /\ pc[t] = "idle"
    /\ g \in built
    /\ calls < MaxCalls
    /\ calls' = calls + 1
    /\ input_panicked' = [input_panicked EXCEPT ![g] = TRUE]
    /\ UNCHANGED <<built, node_id, state, lock, poisoned, pc, gen, timestamp, candidate,
                   seen, emitted, epoch, returned, script, fed, values>>
    /\ obs' = [obs EXCEPT ![t] = [NoObs EXCEPT !.op = "generate",
                                                !.gen = g, !.kind = "RngPanicked",
                                                !.before = state[g], !.after = state'[g],
                                                !.poison = poisoned'[g],
                                                !.after_panic = input_panicked[g]]]

Next ==
    \/ \E t \in Threads, g \in Gens, ts \in ClockReadings, r \in RngOutputs :
           ReadInputs(t, g, ts, r) /\ UNCHANGED rest
    \/ \E t \in Threads, g \in Gens : ClockFails(t, g) /\ UNCHANGED rest
    \/ \E t \in Threads : Acquire(t) /\ UNCHANGED rest
    \/ \E t \in Threads : Critical(t) /\ UNCHANGED rest
    \/ \E t \in Threads, g \in Gens : Last(t, g) /\ UNCHANGED rest
    \/ \E t \in Threads, g \in Gens : Reset(t, g) /\ UNCHANGED rest

Spec == Init /\ [][Next]_vars

\* fair scheduling: a thread inside the critical section goes on running,
\* and a thread blocked in lock() gets the lock if it is free again and again
Fairness ==
    /\ \A t \in Threads : WF_vars(Critical(t) /\ UNCHANGED rest)
    /\ \A t \in Threads : SF_vars(Acquire(t) /\ UNCHANGED rest)

\* threads contending for one generator without node id whose RNG returns
\* all ones, so that the cell can reach MAX and calls leave the critical
\* section through every exit
InitFair ==
    /\ built = {"g1"}
    /\ node_id = [g \in Gens |-> None]
    /\ InitState
    /\ InitValues

NextFair ==
    \/ \E t \in Threads, ts \in ClockReadings :
           ReadInputs(t, "g1", ts, Ones(U64_BITS)) /\ UNCHANGED rest
    \/ \E t \in Threads : ClockFails(t, "g1") /\ UNCHANGED rest
    \/ \E t \in Threads : Acquire(t) /\ UNCHANGED rest
    \/ \E t \in Threads : Critical(t) /\ UNCHANGED rest
    \/ \E t \in Threads : Last(t, "g1") /\ UNCHANGED rest
    \/ \E t \in Threads : Reset(t, "g1") /\ UNCHANGED rest

SpecFair == InitFair /\ [][NextFair]_vars /\ Fairness

SpecDist == InitDist /\ [][Next]_vars

\* a program that also asks its generator for its node id; its RNG
\* returns zeros
NextNode ==
    \/ \E t \in Threads, ts \in ClockReadings :
           ReadInputs(t, "g1", ts, Zeros(U64_BITS)) /\ UNCHANGED rest
    \/ \E t \in Threads : ClockFails(t, "g1") /\ UNCHANGED rest
    \/ \E t \in Threads : Acquire(t) /\ UNCHANGED rest
    \/ \E t \in Threads : Critical(t) /\ UNCHANGED rest
    \/ \E t \in Threads : Last(t, "g1") /\ UNCHANGED rest
    \/ \E t \in Threads : Reset(t, "g1") /\ UNCHANGED rest
    \/ \E t \in Threads : NodeIdGet(t, "g1") /\ UNCHANGED rest

SpecNode == Init /\ [][NextNode]_vars

NextPoison ==
    \/ Next
    \/ \E t \in Threads : PanicHoldingLock(t)

SpecPoison == Init /\ [][NextPoison]_vars

\* a program whose injected clock and RNG may panic
NextPanic ==
    \/ Next
    \/ \E t \in Threads, g \in Gens : ClockPanics(t, g)
    \/ \E t \in Threads, g \in Gens : RngPanics(t, g)

SpecPanic == Init /\ [][NextPanic]_vars

(***************************************************************************)
(* Replay (test_reproducible_sequence, test_deterministic_generation,      *)
(* test_uniqueness_worst_case): generators of the same configuration are   *)
(* each driven by one thread and fed one script of clock outcomes, RNG     *)
(* outputs and resets; whichever generator is ahead extends the script,    *)
(* the other consumes the entries already written.                         *)
(***************************************************************************)
\* two generators built with the same node id configuration
InitTwin ==
    /\ built = Gens
    /\ \E n \in {None, Some(Word(1, U16_BITS))} : node_id = [g \in Gens |-> n]
    /\ InitState
    /\ InitValues

\* the thread that drives generator g
Driver(g) == IF g = "g1" THEN "t1" ELSE "t2"

\* generator g's next call consumes script entry e
Feed(g, e) ==
    /\ IF fed[g] < Len(script)
       THEN script[fed[g] + 1] = e /\ UNCHANGED script
       ELSE script' = Append(script, e)
    /\ fed' = [fed EXCEPT ![g] = @ + 1]

TwinGenerate(g, ts, r) ==
    /\ Feed(g, [op |-> "generate", ts |-> ts, r |-> r])
    /\ ReadInputs(Driver(g), g, ts, r)
    /\ UNCHANGED <<input_panicked, values>>

TwinClockFails(g) ==
    /\ Feed(g, [op |-> "clock_error", ts |-> <<>>, r |-> <<>>])
    /\ ClockFails(Driver(g), g)
    /\ UNCHANGED <<input_panicked, values>>

TwinReset(g) ==
    /\ Feed(g, [op |-> "reset", ts |-> <<>>, r |-> <<>>])
    /\ Reset(Driver(g), g)
    /\ UNCHANGED <<input_panicked, values>>

NextTwin ==
    \/ \E g \in Gens, ts \in ClockReadings, r \in RngOutputs : TwinGenerate(g, ts, r)
    \/ \E g \in Gens : TwinClockFails(g)
    \/ \E g \in Gens : TwinReset(g)
    \/ \E t \in Threads : Acquire(t) /\ UNCHANGED rest
    \/ \E t \in Threads : Critical(t) /\ UNCHANGED rest

SpecTwin == InitTwin /\ [][NextTwin]_vars

(***************************************************************************)
(* Conversions: a program holds two identifiers, displays them, parses     *)
(* strings (its own or handed to it in any letter case) and converts to    *)
(* and from byte arrays.                                                   *)
(***************************************************************************)
\* the variables of the generators
generators ==
    <<built, node_id, state, lock, poisoned, pc, gen, timestamp, candidate, seen,
      obs, emitted, epoch, returned, calls, input_panicked, script, fed, system,
      configured, doubles>>

\* the variables no step of the system clock changes
generators_but_system ==
    <<built, node_id, state, lock, poisoned, pc, gen, timestamp, candidate, seen,
      obs, emitted, epoch, returned, calls, input_panicked, script, fed, configured, doubles>>

\* 0, 1, 31 (one full 5-bit group), 2^64 - 1,
\* 0x0123456789ABCDEFFEDCBA9876543210, 2^127 - 1, 2^127 and u128::MAX
IdValues ==
    {MIN, Word(1, U128_BITS), Word(31, U128_BITS), ZeroExt(Ones(U64_BITS), U128_BITS),
     <<0, 1, 2, 3, 4, 5, 6, 7, 8, 9, 10, 11, 12, 13, 14, 15,
       15, 14, 13, 12, 11, 10, 9, 8, 7, 6, 5, 4, 3, 2, 1, 0>>,
     <<7>> \o Ones(U128_BITS - DIGIT_BITS), <<8>> \o Zeros(U128_BITS - DIGIT_BITS), MAX}

\* strings handed to the parser: "zzzzzzzzzzzzzzzzzzzzzzzzzz",
\* "0123456789ABCDEFGHJKMNPQRS", "7tvwxyzTVWXYZ0000000000000",
\* "0000000000000000000000000I", "000000l0000000000000000000" and "123"
Texts ==
    {[i \in 1..NULID_STRING_LENGTH |-> 122],
     <<48, 49, 50, 51, 52, 53, 54, 55, 56, 57, 65, 66, 67, 68, 69, 70, 71, 72, 74, 75, 77, 78, 80, 81, 82, 83>>,
     <<55, 116, 118, 119, 120, 121, 122, 84, 86, 87, 88, 89, 90, 48, 48, 48, 48, 48, 48, 48, 48, 48, 48, 48, 48, 48>>,
     <<48, 48, 48, 48, 48, 48, 48, 48, 48, 48, 48, 48, 48, 48, 48, 48, 48, 48, 48, 48, 48, 48, 48, 48, 48, 73>>,
     <<48, 48, 48, 48, 48, 48, 108, 48, 48, 48, 48, 48, 48, 48, 48, 48, 48, 48, 48, 48, 48, 48, 48, 48, 48, 48>>,
     <<49, 50, 51>>}

\* sets of character positions whose letters change case: all of them,
\* every other one, the first and the last
CaseMasks ==
    {1..NULID_STRING_LENGTH, {i \in 1..NULID_STRING_LENGTH : i % 2 = 1}, {1},
     {NULID_STRING_LENGTH}}

\* char::to_lowercase / to_uppercase on an ASCII byte
SwapCase(c) ==
    IF c >= 65 /\ c <= 90 THEN c + 32
    ELSE IF c >= 97 /\ c <= 122 THEN c - 32
    ELSE c

ChangeCase(s, mask) == [i \in 1..Len(s) |-> IF i \in mask THEN SwapCase(s[i]) ELSE s[i]]

InitValue ==
    /\ built = {}
    /\ node_id = [g \in Gens |-> None]
    /\ InitState
    /\ ids \in [Slots -> IdValues]
    /\ text = [x \in Slots |-> NoText]
    /\ parsed = [x \in Slots |-> NoResult]
    /\ bytes = [x \in Slots |-> NoBytes]
    /\ rebuilt = [x \in Slots |-> None]
    /\ InitMade
    /\ InitSystem
    /\ InitDoubles

\* impl Display for Nulid: the 26 characters of self.encode(&mut buf)
Display(x) ==
    /\ text' = [text EXCEPT ![x] = encode_u128(ids[x])]
    /\ parsed' = [parsed EXCEPT ![x] = NoResult]
    /\ UNCHANGED <<generators, ids, bytes, rebuilt, made>>

\* a caller hands in a string of its own
Supply(s) ==
    /\ text' = [text EXCEPT !["a"] = s]
    /\ parsed' = [parsed EXCEPT !["a"] = NoResult]
    /\ UNCHANGED <<generators, ids, bytes, rebuilt, made>>

\* a caller changes the case of some letters of slot a's string
Recase(mask) ==
    /\ text["a"] # NoText
    /\ text' = [text EXCEPT !["b"] = ChangeCase(text["a"], mask)]
    /\ parsed' = [parsed EXCEPT !["b"] = NoResult]
    /\ UNCHANGED <<generators, ids, bytes, rebuilt, made>>

\* impl FromStr for Nulid: decode_u128(s)
Parse(x) ==
    /\ text[x] # NoText
    /\ parsed[x] = NoResult
    /\ parsed' = [parsed EXCEPT ![x] = decode_u128(text[x])]
    /\ UNCHANGED <<generators, ids, text, bytes, rebuilt, made>>

\* Nulid::to_bytes
ToBytes(x) ==
    /\ bytes[x] = NoBytes
    /\ bytes' = [bytes EXCEPT ![x] = to_bytes(ids[x])]
    /\ UNCHANGED <<generators, ids, text, parsed, rebuilt, made>>

\* Nulid::from_bytes
FromBytes(x) ==
    /\ bytes[x] # NoBytes
    /\ rebuilt[x] = None
    /\ rebuilt' = [rebuilt EXCEPT ![x] = Some(from_bytes(bytes[x]))]
    /\ UNCHANGED <<generators, ids, text, parsed, bytes, made>>

\* a program that displays and parses
NextText ==
    \/ \E x \in Slots : Display(x)
    \/ \E s \in Texts : Supply(s)
    \/ \E mask \in CaseMasks : Recase(mask)
    \/ \E x \in Slots : Parse(x)

SpecText == InitValue /\ [][NextText]_vars

\* a program that converts to and from byte arrays
NextBytes ==
    \/ \E x \in Slots : ToBytes(x)
    \/ \E x \in Slots : FromBytes(x)

SpecBytes == InitValue /\ [][NextBytes]_vars

\* strings of other lengths handed to the parser: "", 25 and 27 characters
\* of the alphabet
OddLengths ==
    {<<>>,
     [i \in 1..(NULID_STRING_LENGTH - 1) |-> 48 + (i % 10)],
     [i \in 1..(NULID_STRING_LENGTH + 1) |-> 90]}

\* I, L, O, U and i, l, o, u, the letters the alphabet leaves out, and '-'
Excluded == {73, 76, 79, 85, 105, 108, 111, 117, 45}

\* the character positions (1 = first) a caller overwrites
SpoilPositions == {1, 13, NULID_STRING_LENGTH}

\* a program without a generator, whose identifiers are Nulid::default()
InitParse ==
    /\ built = {}
    /\ node_id = [g \in Gens |-> None]
    /\ InitState
    /\ InitValues

\* a caller overwrites character i of slot a's string with a character the
\* alphabet does not have
Spoil(i, c) ==
    /\ text["a"] # NoText
    /\ i <= Len(text["a"])
    /\ text' = [text EXCEPT !["a"][i] = c]
    /\ parsed' = [parsed EXCEPT !["a"] = NoResult]
    /\ UNCHANGED <<generators, ids, bytes, rebuilt, made>>

NextParse ==
    \/ \E s \in Texts \cup OddLengths : Supply(s)
    \/ \E i \in SpoilPositions, c \in Excluded : Spoil(i, c)
    \/ Parse("a")

SpecParse == InitParse /\ [][NextParse]_vars

(***************************************************************************)
(* Identifier values: a program assembles identifiers from a timestamp     *)
(* and a random word, takes their successors and compares them.            *)
(***************************************************************************)
\* timestamps handed to from_nanos: 0, 1, 2^68 - 1, 2^68, u128::MAX and
\* 0x0123456789ABCDEFFEDCBA9876543210
NanosInputs ==
    {MIN, Word(1, U128_BITS), Mask(TIMESTAMP_BITS, U128_BITS),
     [i \in 1..(U128_BITS \div DIGIT_BITS) |-> IF i = 15 THEN 1 ELSE 0], MAX,
     <<0, 1, 2, 3, 4, 5, 6, 7, 8, 9, 10, 11, 12, 13, 14, 15,
       15, 14, 13, 12, 11, 10, 9, 8, 7, 6, 5, 4, 3, 2, 1, 0>>}

\* random words handed to from_nanos: 0, 1, 2^60 - 2, 2^60 - 1, 2^60 and
\* u64::MAX
RandomInputs ==
    {Zeros(U64_BITS), Word(1, U64_BITS),
     [i \in 1..(U64_BITS \div DIGIT_BITS) |-> IF i = 1 THEN 0 ELSE IF i = 16 THEN 14 ELSE 15],
     Mask(RANDOM_BITS, U64_BITS),
     [i \in 1..(U64_BITS \div DIGIT_BITS) |-> IF i = 1 THEN 1 ELSE 0],
     Ones(U64_BITS)}

\* an order that looks at the random field before the timestamp
cmp_payload_first(a, b) ==
    IF Lt(random(a), random(b)) THEN "Less"
    ELSE IF Lt(random(b), random(a)) THEN "Greater"
    ELSE IF Lt(nanos(a), nanos(b)) THEN "Less"
    ELSE IF a = b THEN "Equal" ELSE "Greater"

\* impl Ord for Nulid, cmp: self.0.cmp(&other.0)
cmp(a, b) == IF Lt(a, b) THEN "Less" ELSE IF a = b THEN "Equal" ELSE "Greater"

\* slot x's identifier is built once, by Nulid::from_nanos(t, p)
FromNanos(x, t, p) ==
    /\ parts[x] = NoParts
    /\ ids' = [ids EXCEPT ![x] = from_nanos(t, p)]
    /\ parts' = [parts EXCEPT ![x] = [nanos |-> t, random |-> p]]
    /\ succ' = [succ EXCEPT ![x] = NotCalled]
    /\ ordering' = "none"
    /\ UNCHANGED <<generators, text, parsed, bytes, rebuilt, slice, converted>>

\* slot x's identifier .increment()
Increment(x) ==
    /\ succ[x] = NotCalled
    /\ succ' = [succ EXCEPT ![x] = Returned(increment(ids[x]))]
    /\ UNCHANGED <<generators, ids, text, parsed, bytes, rebuilt, parts, ordering, slice, converted>>

\* slot a's identifier .cmp(slot b's identifier)
Compare ==
    /\ ordering = "none"
    /\ ordering' = cmp(ids["a"], ids["b"])
    /\ UNCHANGED <<generators, ids, text, parsed, bytes, rebuilt, parts, succ, slice, converted>>

NextValue ==
    \/ \E x \in Slots, t \in NanosInputs, p \in RandomInputs : FromNanos(x, t, p)
    \/ \E x \in Slots : Increment(x)
    \/ Compare

SpecValue == InitParse /\ [][NextValue]_vars

(***************************************************************************)
(* Byte slices: a program is handed slices of any length, converts them    *)
(* with try_from(), and copies those of 16 bytes into an array for         *)
(* from_bytes().                                                           *)
(***************************************************************************)
\* slices handed in: empty, 15 bytes, 17 bytes, 32 bytes, and 16 bytes:
\* zeros, 0x01 .. 0x10, 0x80 then zeros, 0xFF throughout
Slices ==
    {<<>>,
     [k \in 1..(BYTES_LENGTH - 1) |-> k],
     [k \in 1..(BYTES_LENGTH + 1) |-> 255],
     [k \in 1..(2 * BYTES_LENGTH) |-> k],
     [k \in 1..BYTES_LENGTH |-> 0],
     [k \in 1..BYTES_LENGTH |-> k],
     [k \in 1..BYTES_LENGTH |-> IF k = 1 THEN 128 ELSE 0],
     [k \in 1..BYTES_LENGTH |-> 255]}

\* a caller hands slot x a slice
SupplySlice(x, s) ==
    /\ slice[x] = NoSlice
    /\ slice' = [slice EXCEPT ![x] = s]
    /\ UNCHANGED <<generators, ids, text, parsed, bytes, rebuilt, parts, succ, ordering, converted>>

\* Nulid::try_from(slice)
TryFrom(x) ==
    /\ slice[x] # NoSlice
    /\ converted[x] = NoResult
    /\ converted' = [converted EXCEPT ![x] = try_from(slice[x])]
    /\ UNCHANGED <<generators, ids, text, parsed, bytes, rebuilt, parts, succ, ordering, slice>>

\* a caller copies a slice of 16 bytes into a [u8; 16]
AsArray(x) ==
    /\ slice[x] # NoSlice
    /\ Len(slice[x]) = BYTES_LENGTH
    /\ bytes[x] = NoBytes
    /\ bytes' = [bytes EXCEPT ![x] = slice[x]]
    /\ UNCHANGED <<generators, ids, text, parsed, rebuilt, made>>

NextSlice ==
    \/ \E x \in Slots, s \in Slices : SupplySlice(x, s)
    \/ \E x \in Slots : TryFrom(x)
    \/ \E x \in Slots : AsArray(x)
    \/ \E x \in Slots : FromBytes(x)

SpecSlice == InitParse /\ [][NextSlice]_vars

(***************************************************************************)
(* The system clock (src/src/time.rs): the first call of now_nanos() reads *)
(* the wall clock and the raw counter of the quanta clock into CLOCK_BASE; *)
(* every call returns the base wall-clock time plus the counter's advance. *)
(***************************************************************************)
\* what SystemTime::now().duration_since(UNIX_EPOCH) gives
\* get_wall_clock_nanos: an error for a system time before the Unix epoch,
\* or the nanoseconds 1000 and 0x1000_0000_FFFF_FFFF
WallOutcomes ==
    {SystemTimeError,
     TimeOk(Word(1000, U128_BITS)),
     TimeOk(Zeros(U64_BITS) \o <<1, 0, 0, 0, 0, 0, 0, 0, 15, 15, 15, 15, 15, 15, 15, 15>>)}

\* readings of the raw counter
QuantaReadings ==
    {Word(0, U64_BITS), Word(1, U64_BITS), Word(15, U64_BITS), Word(16, U64_BITS),
     Word(4096, U64_BITS)}

\* Result::unwrap_or(0)
unwrap_or_0(res) == IF res.kind = "Ok" THEN res.value ELSE Zeros(U128_BITS)

\* time::now_nanos with CLOCK_BASE holding base, the wall clock giving wall
\* and the raw counter reading r1 in the initialiser and r2 after it: the
\* new content of CLOCK_BASE and the value returned
now_nanos(base, wall, r1, r2) ==
    LET cb == IF base = None
              THEN [base_wall_nanos |-> unwrap_or_0(wall), base_quanta_nanos |-> r1]
              ELSE Unwrap(base)
    IN  [base |-> Some(cb),
         result |-> TimeOk(wrapping_add(cb.base_wall_nanos,
                                        ZeroExt(wrapping_sub(r2, cb.base_quanta_nanos),
                                                U128_BITS)))]

\* thread t calls now_nanos(); the raw counter never goes back
NowNanos(t, wall, r1, r2) ==
    /\ Le(quanta, r1) /\ Le(r1, r2)
    /\ clock_base' = now_nanos(clock_base, wall, r1, r2).base
    /\ now' = [now EXCEPT ![t] = now_nanos(clock_base, wall, r1, r2).result]
    /\ wall_read' = IF clock_base = None THEN wall ELSE wall_read
    /\ quanta' = r2
    /\ UNCHANGED <<built, node_id, state, lock, poisoned, pc, gen, timestamp, candidate, seen,
                   obs, emitted, epoch, returned, calls, input_panicked, script, fed>>
    /\ UNCHANGED <<ids, text, parsed, bytes, rebuilt, made, configured, racing, doubles>>

NextClock ==
    \E t \in Threads, wall \in WallOutcomes, r1, r2 \in QuantaReadings : NowNanos(t, wall, r1, r2)

SpecClock == InitParse /\ [][NextClock]_vars

(***************************************************************************)
(* now_nanos() step by step, for calls that overlap: get_or_init on        *)
(* CLOCK_BASE, the initialiser's two readings, the reading of the raw      *)
(* counter after it and the addition.                                      *)
(***************************************************************************)
\* a thread is running CLOCK_BASE's initialiser
Initialising == \E u \in Threads : clock_pc[u] \in {"wall", "base"}

\* a cell that every thread finding it empty initialises
GetOrInitUnsynchronised(t) ==
    /\ clock_pc[t] = "idle"
    /\ calls < MaxCalls
    /\ calls' = calls + 1
    /\ clock_pc' = [clock_pc EXCEPT ![t] = IF clock_base = None THEN "wall" ELSE "raw"]
    /\ UNCHANGED <<built, node_id, state, lock, poisoned, pc, gen, timestamp, candidate, seen,
                   obs, emitted, epoch, returned, input_panicked, script, fed>>
    /\ UNCHANGED <<ids, text, parsed, bytes, rebuilt, made, configured, doubles>>
    /\ UNCHANGED <<clock_base, quanta, wall_read, now, wall_nanos, current_quanta_nanos,
                   earlier, captured>>

\* CLOCK_BASE.get_or_init(..): the thread finding the cell set goes on; the
\* thread finding it empty runs the initialiser, unless another thread is
\* running it: then it waits until the cell is set
GetOrInit(t) ==
    /\ clock_pc[t] = "idle"
    /\ calls < MaxCalls
    /\ clock_base # None \/ ~Initialising
    /\ calls' = calls + 1
    /\ clock_pc' = [clock_pc EXCEPT ![t] = IF clock_base = None THEN "wall" ELSE "raw"]
    /\ UNCHANGED <<built, node_id, state, lock, poisoned, pc, gen, timestamp, candidate, seen,
                   obs, emitted, epoch, returned, input_panicked, script, fed>>
    /\ UNCHANGED <<ids, text, parsed, bytes, rebuilt, made, configured, doubles>>
    /\ UNCHANGED <<clock_base, quanta, wall_read, now, wall_nanos, current_quanta_nanos,
                   earlier, captured>>

\* let wall_nanos = get_wall_clock_nanos().unwrap_or(0)
ReadWall(t, wall) ==
    /\ clock_pc[t] = "wall"
    /\ wall_nanos' = [wall_nanos EXCEPT ![t] = Some(unwrap_or_0(wall))]
    /\ wall_read' = wall
    /\ clock_pc' = [clock_pc EXCEPT ![t] = "base"]
    /\ UNCHANGED <<generators_but_system, ids, text, parsed, bytes, rebuilt, made>>
    /\ UNCHANGED <<clock_base, quanta, now, current_quanta_nanos, earlier, captured>>

\* let quanta_nanos = clock.raw(); the cell is set to the ClockBase
ReadBase(t, r) ==
    /\ clock_pc[t] = "base"
    /\ Le(quanta, r)
    /\ quanta' = r
    /\ clock_base' = Some([base_wall_nanos |-> Unwrap(wall_nanos[t]), base_quanta_nanos |-> r])
    /\ captured' = Append(captured, Unwrap(clock_base'))
    /\ clock_pc' = [clock_pc EXCEPT ![t] = "raw"]
    /\ UNCHANGED <<generators_but_system, ids, text, parsed, bytes, rebuilt, made>>
    /\ UNCHANGED <<wall_read, now, wall_nanos, current_quanta_nanos, earlier>>

\* let current_quanta_nanos = clock.raw()
ReadRaw(t, r) ==
    /\ clock_pc[t] = "raw"
    /\ Le(quanta, r)
    /\ quanta' = r
    /\ current_quanta_nanos' = [current_quanta_nanos EXCEPT ![t] = Some(r)]
    /\ clock_pc' = [clock_pc EXCEPT ![t] = "add"]
    /\ UNCHANGED <<generators_but_system, ids, text, parsed, bytes, rebuilt, made>>
    /\ UNCHANGED <<clock_base, wall_read, now, wall_nanos, earlier, captured>>

\* Ok(clock_base.base_wall_nanos + u128::from(elapsed_nanos))
AddElapsed(t) ==
    /\ clock_pc[t] = "add"
    /\ earlier' = [earlier EXCEPT ![t] = now[t]]
    /\ now' = [now EXCEPT ![t] = now_nanos(clock_base, NoTime,
                                           Unwrap(current_quanta_nanos[t]),
                                           Unwrap(current_quanta_nanos[t])).result]
    /\ clock_pc' = [clock_pc EXCEPT ![t] = "idle"]
    /\ UNCHANGED <<generators_but_system, ids, text, parsed, bytes, rebuilt, made>>
    /\ UNCHANGED <<clock_base, quanta, wall_read, wall_nanos, current_quanta_nanos, captured>>

NextRace ==
    \/ \E t \in Threads : GetOrInit(t)
    \/ \E t \in Threads, wall \in WallOutcomes : ReadWall(t, wall)
    \/ \E t \in Threads, r \in QuantaReadings : ReadBase(t, r)
    \/ \E t \in Threads, r \in QuantaReadings : ReadRaw(t, r)
    \/ \E t \in Threads : AddElapsed(t)

SpecRace == InitParse /\ [][NextRace]_vars

(***************************************************************************)
(* MockClock (src/src/generator.rs): an AtomicU64 of nanoseconds that a    *)
(* test sets, advances and regresses.                                      *)
(***************************************************************************)
\* Duration::as_nanos() of the durations handed over: 0, 1 ns, 100 ms,
\* u64::MAX ns, 2^64 ns and 2^64 + 1 ns
Durations ==
    {Word(0, U128_BITS), Word(1, U128_BITS), Word(100000000, U128_BITS),
     ZeroExt(Ones(U64_BITS), U128_BITS),
     Word(1, U64_BITS) \o Zeros(U64_BITS),
     Word(1, U64_BITS) \o Word(1, U64_BITS)}

\* the readings a test sets: 0, 1, 1_000_000_000 and u64::MAX
SetNanos ==
    {Word(0, U64_BITS), Word(1, U64_BITS),
     Zeros(U64_BITS \div 2) \o <<3, 11, 9, 10, 12, 10, 0, 0>>,
     Ones(U64_BITS)}

\* `as u64` of a u128
as_u64(v) == Truncate(v, U64_BITS)

\* AtomicU64::fetch_add and fetch_sub: the new content (they wrap around)
fetch_add(a, v) == wrapping_add(a, v)

fetch_sub(a, v) == wrapping_sub(a, v)

\* MockClock::set
Set(n) ==
    /\ calls < MaxCalls
    /\ calls' = calls + 1
    /\ mock_nanos' = n
    /\ moved' = [op |-> "set", duration |-> <<>>, before |-> mock_nanos]
    /\ UNCHANGED <<built, node_id, state, lock, poisoned, pc, gen, timestamp, candidate, seen,
                   obs, emitted, epoch, returned, input_panicked, script, fed, system,
                   configured>>
    /\ UNCHANGED <<ids, text, parsed, bytes, rebuilt, made, random_bytes, bumped>>

\* MockClock::advance
Advance(duration) ==
    /\ calls < MaxCalls
    /\ calls' = calls + 1
    /\ mock_nanos' = fetch_add(mock_nanos, as_u64(duration))
    /\ moved' = [op |-> "advance", duration |-> duration, before |-> mock_nanos]
    /\ UNCHANGED <<built, node_id, state, lock, poisoned, pc, gen, timestamp, candidate, seen,
                   obs, emitted, epoch, returned, input_panicked, script, fed, system,
                   configured>>
    /\ UNCHANGED <<ids, text, parsed, bytes, rebuilt, made, random_bytes, bumped>>

\* MockClock::regress
Regress(duration) ==
    /\ calls < MaxCalls
    /\ calls' = calls + 1
    /\ mock_nanos' = fetch_sub(mock_nanos, as_u64(duration))
    /\ moved' = [op |-> "regress", duration |-> duration, before |-> mock_nanos]
    /\ UNCHANGED <<built, node_id, state, lock, poisoned, pc, gen, timestamp, candidate, seen,
                   obs, emitted, epoch, returned, input_panicked, script, fed, system,
                   configured>>
    /\ UNCHANGED <<ids, text, parsed, bytes, rebuilt, made, random_bytes, bumped>>

NextMock ==
    \/ \E n \in SetNanos : Set(n)
    \/ \E duration \in Durations : Advance(duration)
    \/ \E duration \in Durations : Regress(duration)

SpecMock == InitParse /\ [][NextMock]_vars

(***************************************************************************)
(* Random (src/src/randomness.rs): ten bytes, incremented in place.        *)
(***************************************************************************)
\* the arrays handed to from_bytes: seven bytes all 0 or all 255, then
\* three bytes of 0, 254 or 255
ByteArrays ==
    {[i \in 1..RANDOM_BYTES |-> IF i <= RANDOM_BYTES - 3 THEN p ELSE q[i - (RANDOM_BYTES - 3)]] :
        p \in {0, 255}, q \in [1..3 -> {0, 254, 255}]}

\* the loop of Random::increment over self.0.iter_mut().rev(), from byte i
\* down: the bytes it leaves and what increment() returns
RECURSIVE increment_from(_, _)
increment_from(b, i) ==
    IF i = 0
    THEN [bytes |-> b, result |-> "RandomnessOverflow"]
    ELSE IF b[i] = 255
         THEN increment_from([b EXCEPT ![i] = 0], i - 1)
         ELSE [bytes |-> [b EXCEPT ![i] = b[i] + 1], result |-> "Ok"]

\* Random::increment
random_increment(b) == increment_from(b, RANDOM_BYTES)

\* Random::from_bytes
RandomFromBytes(b) ==
    /\ calls < MaxCalls
    /\ calls' = calls + 1
    /\ random_bytes' = b
    /\ bumped' = NotBumped
    /\ UNCHANGED <<built, node_id, state, lock, poisoned, pc, gen, timestamp, candidate, seen,
                   obs, emitted, epoch, returned, input_panicked, script, fed, system,
                   configured>>
    /\ UNCHANGED <<ids, text, parsed, bytes, rebuilt, made, mock_nanos, moved>>

\* random.increment()
RandomIncrement ==
    /\ calls < MaxCalls
    /\ calls' = calls + 1
    /\ random_bytes' = random_increment(random_bytes).bytes
    /\ bumped' = [called |-> TRUE, before |-> random_bytes,
                  result |-> random_increment(random_bytes).result]
    /\ UNCHANGED <<built, node_id, state, lock, poisoned, pc, gen, timestamp, candidate, seen,
                   obs, emitted, epoch, returned, input_panicked, script, fed, system,
                   configured>>
    /\ UNCHANGED <<ids, text, parsed, bytes, rebuilt, made, mock_nanos, moved>>

NextRandom ==
    \/ \E b \in ByteArrays : RandomFromBytes(b)
    \/ RandomIncrement

SpecRandom == InitParse /\ [][NextRandom]_vars

(***************************************************************************)
(* Properties.                                                             *)
(***************************************************************************)
\* the emissions of g since its last reset, in lock order
EmittedSince(g) == SubSeq(emitted[g], epoch[g] + 1, Len(emitted[g]))

StrictlyIncreasing(s) == \A i, j \in 1..Len(s) : i < j => Lt(s[i], s[j])

\* b = a + 1 as unsigned numbers of the same width (no wrap-around)
IsSuccessor(a, b) ==
    \E k \in 1..Len(a) :
        /\ b[k] = a[k] + 1
        /\ \A j \in 1..(k - 1) : b[j] = a[j]
        /\ \A j \in (k + 1)..Len(a) : a[j] = 15 /\ b[j] = 0

\* thread t's last call was a generate() that went through the critical section
Compared(t) == obs[t].op = "generate" /\ obs[t].kind \in {"Ok", "Overflow"}

\* thread t's last call was a generate() that emitted an identifier
Emitted(t) == obs[t].op = "generate" /\ obs[t].kind = "Ok"

\* C1: without a reset in between, every identifier a generator emits is
\* strictly greater, as a 128-bit unsigned value, than every identifier it
\* emitted before, whatever the clock and the RNG return.
C1_StrictlyMonotonic == \A g \in built : StrictlyIncreasing(EmittedSince(g))

\* C1 witness: a generator emitted three identifiers without a reset, the
\* last of them by a call whose clock reading was below the time prefix of
\* the emission before it (the clock went backwards).
C1_Witness ==
    \E t \in Threads :
        /\ Emitted(t)
        /\ Len(EmittedSince(obs[t].gen)) >= 3
        /\ obs[t].before # None
        /\ Lt(obs[t].ts, nanos(Unwrap(obs[t].before)))
        /\ obs[t].id = emitted[obs[t].gen][Len(emitted[obs[t].gen])]

\* C2: with several threads on one generator, the identifiers emitted are
\* pairwise distinct, each emission in lock order is greater than the one
\* before it, and the identifiers returned to one thread increase in that
\* thread's call order.
C2_ConcurrentOrder ==
    /\ \A g \in built :
           /\ \A i, j \in 1..Len(EmittedSince(g)) :
                  i # j => EmittedSince(g)[i] # EmittedSince(g)[j]
           /\ \A i \in 1..(Len(EmittedSince(g)) - 1) :
                  Lt(EmittedSince(g)[i], EmittedSince(g)[i + 1])
    /\ \A t \in Threads : \A i, j \in 1..Len(returned[t]) :
           (/\ i < j
            /\ returned[t][i].gen = returned[t][j].gen
            /\ returned[t][i].idx > epoch[returned[t][i].gen])
           => Lt(emitted[returned[t][i].gen][returned[t][i].idx],
                 emitted[returned[t][j].gen][returned[t][j].idx])

\* C2 witness: both threads were returned identifiers by the same generator,
\* one of them twice, and one call compared against an emission another
\* thread stored after that call had read the clock.
C2_Witness ==
    \E t, u \in Threads :
        /\ t # u
        /\ Len(returned[t]) >= 2
        /\ Len(returned[u]) >= 1
        /\ \A i \in 1..Len(returned[t]) : returned[t][i].gen = "g1"
        /\ \A i \in 1..Len(returned[u]) : returned[u][i].gen = "g1"
        /\ epoch["g1"] = 0
        /\ \E v \in Threads : Emitted(v) /\ obs[v].stale

\* C3: a generate() that does not fail emits its candidate c when the cell
\* is empty or c is greater than the cell's content L, emits exactly L + 1
\* when c <= L, and leaves the emitted value in the cell.
C3_EmitRule ==
    \A t \in Threads :
        Emitted(t) =>
            /\ (obs[t].before = None \/ (obs[t].before # None /\ Gt(obs[t].cand, Unwrap(obs[t].before))))
                   => obs[t].id = obs[t].cand
            /\ (obs[t].before # None /\ Le(obs[t].cand, Unwrap(obs[t].before)))
                   => IsSuccessor(Unwrap(obs[t].before), obs[t].id)
            /\ obs[t].after = Some(obs[t].id)

\* C3 witness: one thread emitted its candidate over a smaller last
\* emission, the other emitted the successor of the last emission.
C3_Witness ==
    \E t, u \in Threads :
        /\ Emitted(t) /\ obs[t].before # None
        /\ Gt(obs[t].cand, Unwrap(obs[t].before))
        /\ Emitted(u) /\ obs[u].before # None
        /\ Le(obs[u].cand, Unwrap(obs[u].before))

\* the upper 16 bits of an identifier's 60-bit payload: (id.random() >> 44) as u16
PayloadNode(id) == Truncate(Shr(random(id), NODE_RANDOM_BITS), U16_BITS)

\* C4: two generators configured with distinct node ids never emit the same
\* identifier, whatever clock and RNG schedules they are fed.
C4_DistinctAcrossNodes ==
    \A g, h \in built :
        (g # h /\ node_id[g] # None /\ node_id[h] # None /\ node_id[g] # node_id[h])
        => \A i \in 1..Len(emitted[g]), j \in 1..Len(emitted[h]) :
               emitted[g][i] # emitted[h][j]

\* C5: every identifier emitted by a generator configured with node id n,
\* as a fresh candidate or as a successor, has n in the upper 16 bits of its
\* payload.
C5_NodeIdEmbedded ==
    \A g \in built :
        node_id[g] # None
        => \A i \in 1..Len(emitted[g]) : PayloadNode(emitted[g][i]) = Unwrap(node_id[g])

InRange(ts) == And(ts, TIMESTAMP_MASK) = ts

\* C7: when the clock reading t (within 68 bits) is greater than the time
\* prefix of the last emission compared against, the emitted time prefix is
\* t; it differs from t only when t is at most the last emission's prefix.
C7_TimePrefixHonest ==
    \A t \in Threads :
        (Emitted(t) /\ InRange(obs[t].ts)) =>
            /\ (obs[t].before # None /\ Gt(obs[t].ts, nanos(Unwrap(obs[t].before))))
                   => nanos(obs[t].id) = obs[t].ts
            /\ nanos(obs[t].id) # obs[t].ts
                   => (obs[t].before # None /\ Le(obs[t].ts, nanos(Unwrap(obs[t].before))))

\* C7 witness: one call emitted the clock's prefix after a forward jump, the
\* other emitted a prefix above its clock reading after a regression.
C7_Witness ==
    \E t, u \in Threads :
        /\ Emitted(t) /\ InRange(obs[t].ts) /\ obs[t].before # None
        /\ Gt(obs[t].ts, nanos(Unwrap(obs[t].before)))
        /\ Emitted(u) /\ InRange(obs[u].ts)
        /\ nanos(obs[u].id) # obs[u].ts

\* C8: with MAX in the cell, generate() returns Overflow, emits nothing and
\* leaves MAX in the cell; the state lock is free again (and not poisoned)
\* once the call is over, so only a thread inside its critical section ever
\* holds it.
C8_OverflowKeepsState ==
    /\ \A t \in Threads :
           (Compared(t) /\ obs[t].before = Some(MAX))
           => (obs[t].kind = "Overflow" /\ obs[t].id = <<>> /\ obs[t].after = Some(MAX))
    /\ \A t \in Threads :
           (obs[t].op = "generate" /\ obs[t].kind = "Overflow")
           => (obs[t].before = Some(MAX) /\ ~poisoned[obs[t].gen])
    /\ \A g \in built :
           lock[g] # "free" => (pc[lock[g]] = "cs" /\ gen[lock[g]] = g)
    /\ \A g \in built : Len(emitted[g]) > 0 /\ state[g] = Some(MAX)
           => emitted[g][Len(emitted[g])] = MAX

\* C8 witness: a generate() returned Overflow, and afterwards the other
\* thread's generate() acquired the state lock of the same generator, whose
\* cell still holds MAX.
C8_Witness ==
    \E t, u \in Threads :
        /\ obs[t].op = "generate" /\ obs[t].kind = "Overflow"
        /\ u # t
        /\ pc[u] = "cs"
        /\ gen[u] = obs[t].gen
        /\ lock[obs[t].gen] = u
        /\ state[obs[t].gen] = Some(MAX)

\* C9: a generate() whose clock read fails returns SystemTimeError and the
\* cell is what it was before the call, empty or holding.
C9_ClockErrorNoChange ==
    \A t \in Threads :
        (obs[t].op = "generate" /\ obs[t].kind = "SystemTimeError")
        => (obs[t].after = obs[t].before /\ obs[t].id = <<>>)

\* C9 witness: one call failed on the clock with the cell empty, another
\* with the cell holding an identifier.
C9_Witness ==
    \E t, u \in Threads :
        /\ obs[t].kind = "SystemTimeError" /\ obs[t].before = None
        /\ obs[u].kind = "SystemTimeError" /\ obs[u].before # None

InputPanicked(t) == obs[t].op = "generate" /\ obs[t].kind \in {"ClockPanicked", "RngPanicked"}

LatestEmission(g) ==
    IF EmittedSince(g) = <<>> THEN None ELSE Some(EmittedSince(g)[Len(EmittedSince(g))])

\* C12: the cell always holds the identifier emitted by the most recent
\* successful generate() since creation or the latest reset(), and is empty
\* when there is none; last() returns the cell's content; a generate() that
\* fails leaves the cell as it was.
C12_LastTracksEmission ==
    /\ \A g \in built : state[g] = LatestEmission(g)
    /\ \A t \in Threads :
           obs[t].op = "last"
           => \/ obs[t].kind = "None" /\ obs[t].id = <<>> /\ obs[t].before = None
              \/ obs[t].kind = "Some" /\ obs[t].before = Some(obs[t].id)
    /\ \A t \in Threads :
           (obs[t].op = "generate" /\ obs[t].kind \in {"Overflow", "SystemTimeError"})
           => obs[t].after = obs[t].before

\* C12 witness: last() returned the second of two identifiers a generator
\* emitted.
C12_Witness ==
    \E t \in Threads :
        /\ obs[t].op = "last" /\ obs[t].kind = "Some"
        /\ Len(EmittedSince(obs[t].gen)) = 2
        /\ obs[t].id = EmittedSince(obs[t].gen)[2]
        /\ obs[t].id # EmittedSince(obs[t].gen)[1]

\* C13: reset() leaves the cell empty whatever it held; with the cell empty
\* last() returns none and the next successful generate() emits its
\* candidate unchanged, also when the candidate is at most an identifier
\* emitted before the reset; the emissions since the reset are strictly
\* increasing.
C13_ResetEmptiesCell ==
    /\ \A t \in Threads : obs[t].op = "reset" => obs[t].after = None
    /\ \A g \in built : epoch[g] = Len(emitted[g]) => state[g] = None
    /\ \A t \in Threads : (obs[t].op = "last" /\ obs[t].before = None) => obs[t].kind = "None"
    /\ \A t \in Threads :
           (Emitted(t) /\ obs[t].before = None)
           => (obs[t].id = obs[t].cand /\ obs[t].after = Some(obs[t].cand))
    /\ \A g \in built : \A i \in (epoch[g] + 1)..(Len(emitted[g]) - 1) :
           Lt(emitted[g][i], emitted[g][i + 1])

\* C13 witness: a reset() emptied a cell that held an identifier, and the
\* generate() after it emitted a candidate that is at most the identifier
\* emitted before the reset.
C13_Witness ==
    \E t, u \in Threads :
        /\ obs[u].op = "reset" /\ obs[u].before # None /\ obs[u].after = None
        /\ Emitted(t) /\ obs[t].gen = obs[u].gen /\ obs[t].before = None
        /\ epoch[obs[t].gen] >= 1
        /\ Len(emitted[obs[t].gen]) = epoch[obs[t].gen] + 1
        /\ Le(obs[t].id, emitted[obs[t].gen][epoch[obs[t].gen]])

\* w + k as an unsigned number of w's width, none when it does not fit
RECURSIVE PlusK(_, _)
PlusK(w, k) ==
    IF k = 0 THEN Some(w)
    ELSE IF PlusK(w, k - 1) = None THEN None
         ELSE checked_add_1(Unwrap(PlusK(w, k - 1)))

\* every script entry generator g has consumed is a generate() with the
\* clock reading and the RNG output of the first entry
FrozenInputs(g) ==
    /\ fed[g] >= 1
    /\ \A i \in 1..fed[g] :
           /\ script[i].op = "generate"
           /\ script[i].ts = script[1].ts
           /\ script[i].r = script[1].r

\* the payload r + k still fits the 60 payload bits
PayloadFits(r, k) ==
    /\ PlusK(r, k) # None
    /\ And(Unwrap(PlusK(r, k)), Mask(RANDOM_BITS, U64_BITS)) = Unwrap(PlusK(r, k))

\* C14: on a fresh generator without node id whose clock returns t on every
\* call and whose RNG returns r on every call, the k-th emission
\* (k = 0, 1, 2, ...) is the identifier made of t and r plus k; as long as
\* the payload r + k does not wrap, its time prefix is t and its payload
\* is r + k.
C14_FrozenInputsCountUp ==
    \A g \in built :
        (node_id[g] = None /\ FrozenInputs(g))
        => \A k \in 0..(Len(emitted[g]) - 1) :
               /\ Some(emitted[g][k + 1])
                      = PlusK(from_nanos(script[1].ts, And(script[1].r, Mask(RANDOM_BITS, U64_BITS))), k)
               /\ PayloadFits(And(script[1].r, Mask(RANDOM_BITS, U64_BITS)), k)
                      => /\ nanos(emitted[g][k + 1]) = And(script[1].ts, TIMESTAMP_MASK)
                         /\ InRange(script[1].ts) => nanos(emitted[g][k + 1]) = script[1].ts
                         /\ Some(random(emitted[g][k + 1]))
                                = PlusK(And(script[1].r, Mask(RANDOM_BITS, U64_BITS)), k)

\* C14 witness: a generator without node id emitted three identifiers from
\* three generate() calls that all read clock 1 and RNG output 0; the third
\* has payload 2.
C14_Witness ==
    \E g \in built :
        /\ node_id[g] = None
        /\ FrozenInputs(g)
        /\ script[1].ts = Word(1, U128_BITS)
        /\ script[1].r = Zeros(U64_BITS)
        /\ Len(emitted[g]) = 3
        /\ random(emitted[g][3]) = Word(2, U64_BITS)

\* sequence a is an initial part of sequence b
IsPrefix(a, b) == Len(a) <= Len(b) /\ \A i \in 1..Len(a) : a[i] = b[i]

\* the driver of generator g is between two calls
AtRest(g) == pc[Driver(g)] = "idle"

InGenerate(t) == pc[t] \in {"lock", "cs"}

\* C15: under fair scheduling every generate() call returns, with an
\* identifier or an error; the state lock is only ever held by a thread
\* inside its critical section, so it is free again after every exit, the
\* Overflow exit included; and no call fails for contention: the only
\* errors are SystemTimeError from the clock and Overflow from a cell that
\* holds MAX.
C15_EveryCallReturns ==
    /\ \A t \in Threads : InGenerate(t) ~> (pc[t] = "idle" /\ obs[t].kind # "running")
    /\ [](\A g \in built : lock[g] # "free" => (pc[lock[g]] = "cs" /\ gen[lock[g]] = g))
    /\ [](\A t \in Threads :
              (obs[t].op = "generate" /\ obs[t].kind # "running")
              => \/ obs[t].kind = "Ok"
                 \/ obs[t].kind = "SystemTimeError"
                 \/ obs[t].kind = "Overflow" /\ obs[t].before = Some(MAX))

\* C15 witness: a thread is blocked in lock() while the other thread is in
\* the critical section of the same generator, about to leave it through
\* the Overflow exit.
C15_Witness ==
    \E t, u \in Threads :
        /\ pc[t] = "lock" /\ pc[u] = "cs"
        /\ gen[t] = gen[u]
        /\ lock[gen[u]] = u
        /\ state[gen[u]] = Some(MAX)

\* slot x holds the string the program displays for its identifier
Displayed(x) == text[x] # NoText /\ text[x] = encode_u128(ids[x])

\* byte-wise lexicographic a < b (Ord for str and for [u8])
StrLt(a, b) ==
    \/ Len(a) < Len(b) /\ \A j \in 1..Len(a) : a[j] = b[j]
    \/ \E i \in 1..Len(a) :
           i <= Len(b) /\ a[i] < b[i] /\ \A j \in 1..(i - 1) : a[j] = b[j]

\* C17: the string displayed for an identifier has 26 characters, and
\* parsing it succeeds and returns exactly that identifier, for 0 and
\* 2^128 - 1 as for any other value.
C17_ParseDisplayRoundTrip ==
    \A x \in Slots :
        Displayed(x)
        => /\ Len(text[x]) = NULID_STRING_LENGTH
           /\ parsed[x] # NoResult => parsed[x] = DecodeOk(ids[x])

\* C17 witness: the displayed strings of 2^128 - 1 and of 0 were parsed
\* back to 2^128 - 1 and 0.
C17_Witness ==
    /\ ids["a"] = MAX /\ Displayed("a") /\ parsed["a"] = DecodeOk(MAX)
    /\ ids["b"] = MIN /\ Displayed("b") /\ parsed["b"] = DecodeOk(MIN)

\* C18: for two identifiers a and b, a < b as 128-bit values exactly when
\* the displayed (upper-case) string of a is less than that of b in
\* byte-wise ASCII order.
C18_DisplayPreservesOrder ==
    \A x, y \in Slots :
        (Displayed(x) /\ Displayed(y))
        => (Lt(ids[x], ids[y]) <=> StrLt(text[x], text[y]))

\* C18 witness: 2^127 - 1 and 2^127, whose strings differ from the first
\* character on, are displayed in their numeric order.
C18_Witness ==
    /\ ids["a"] = <<7>> \o Ones(U128_BITS - DIGIT_BITS)
    /\ ids["b"] = <<8>> \o Zeros(U128_BITS - DIGIT_BITS)
    /\ Displayed("a") /\ Displayed("b")
    /\ StrLt(text["a"], text["b"])
    /\ text["a"][1] < text["b"][1]

\* byte k (0 = first) of the big-endian form: (id >> 8 * (15 - k)) as u8
BigEndianByte(id, k) ==
    16 * Shr(id, 8 * (BYTES_LENGTH - 1 - k))[Len(id) - 1] + Shr(id, 8 * (BYTES_LENGTH - 1 - k))[Len(id)]

\* C19: to_bytes() returns the 16 bytes of the identifier, most significant
\* first; from_bytes() of them is the identifier; and a < b exactly when
\* to_bytes(a) is less than to_bytes(b) byte by byte.
C19_BytesBigEndian ==
    /\ \A x \in Slots :
           bytes[x] # NoBytes
           => /\ Len(bytes[x]) = BYTES_LENGTH
              /\ \A k \in 0..(BYTES_LENGTH - 1) : bytes[x][k + 1] = BigEndianByte(ids[x], k)
    /\ \A x \in Slots : rebuilt[x] # None => rebuilt[x] = Some(ids[x])
    /\ \A x, y \in Slots :
           (bytes[x] # NoBytes /\ bytes[y] # NoBytes)
           => (Lt(ids[x], ids[y]) <=> StrLt(bytes[x], bytes[y]))

\* C19 witness: 0x0123456789ABCDEFFEDCBA9876543210 and 2^127 were converted
\* to bytes and back, and their byte arrays are in numeric order although
\* the last byte of the smaller one is the greater.
C19_Witness ==
    /\ ids["b"] = <<8>> \o Zeros(U128_BITS - DIGIT_BITS)
    /\ rebuilt["a"] = Some(ids["a"]) /\ rebuilt["b"] = Some(ids["b"])
    /\ bytes["a"][BYTES_LENGTH] > bytes["b"][BYTES_LENGTH]
    /\ bytes["a"][1] = 1
    /\ StrLt(bytes["a"], bytes["b"])

\* t is s with the case of some of its letters changed
SameUpToCase(s, t) ==
    /\ Len(s) = Len(t)
    /\ \A i \in 1..Len(s) : t[i] = s[i] \/ t[i] = SwapCase(s[i])

\* C20: when a 26-character string parses successfully, every string that
\* differs from it only in the case of letters parses successfully to the
\* same 128-bit value.
C20_CaseInsensitive ==
    \A x, y \in Slots :
        (/\ parsed[x].kind = "Ok"
         /\ Len(text[x]) = NULID_STRING_LENGTH
         /\ SameUpToCase(text[x], text[y])
         /\ parsed[y] # NoResult)
        => parsed[y] = parsed[x]

\* C20 witness: a string with upper-case and lower-case letters and the
\* string with the case of every letter changed were both parsed, to the
\* same value.
C20_Witness ==
    /\ parsed["a"].kind = "Ok"
    /\ \E i \in 1..Len(text["a"]) : text["a"][i] >= 97
    /\ \E i \in 1..Len(text["a"]) : text["a"][i] >= 65 /\ text["a"][i] <= 90
    /\ text["b"] = ChangeCase(text["a"], 1..NULID_STRING_LENGTH)
    /\ parsed["b"] = parsed["a"]

\* the letters I, L, O, U in both cases
Confusables == {73, 76, 79, 85, 105, 108, 111, 117}

\* c is a digit or letter of the alphabet, in upper or lower case
InAlphabet(c) ==
    \E k \in 1..Len(ALPHABET) : ALPHABET[k] = c \/ (c >= 97 /\ ALPHABET[k] = SwapCase(c))

\* the leftmost position (1 = first) of s whose character is not in the alphabet
LeftmostInvalid(s) ==
    CHOOSE p \in 1..Len(s) : ~InAlphabet(s[p]) /\ \A q \in 1..(p - 1) : InAlphabet(s[q])

\* C21: parsing a 26-character string that contains I, L, O or U in either
\* case returns no value but the invalid-character error, which carries
\* the leftmost character of the string that is not in the alphabet and
\* its zero-based position.
C21_ExcludedLetterRejected ==
    \A x \in Slots :
        (/\ parsed[x] # NoResult
         /\ Len(text[x]) = NULID_STRING_LENGTH
         /\ \E i \in 1..Len(text[x]) : text[x][i] \in Confusables)
        => /\ parsed[x].kind = "InvalidChar"
           /\ parsed[x].value = <<>>
           /\ parsed[x].pos = LeftmostInvalid(text[x]) - 1
           /\ parsed[x].ch = text[x][LeftmostInvalid(text[x])]

\* C21 witness: a 26-character string with a 'u' at position 12 and an 'O'
\* at position 25 was parsed, and the error names the 'u' at position 12.
C21_Witness ==
    /\ Len(text["a"]) = NULID_STRING_LENGTH
    /\ text["a"][13] = 117 /\ text["a"][NULID_STRING_LENGTH] = 79
    /\ InAlphabet(text["a"][1])
    /\ parsed["a"] = InvalidChar(117, 12)

\* C22: parsing a string whose length (in bytes) is not 26 returns
\* InvalidLength{expected: 26, found: its length}, whatever its characters
\* are: a string of another length that holds characters outside the
\* alphabet is reported for its length.
C22_LengthCheckedFirst ==
    \A x \in Slots :
        (parsed[x] # NoResult /\ Len(text[x]) # NULID_STRING_LENGTH)
        => parsed[x] = InvalidLength(NULID_STRING_LENGTH, Len(text[x]))

\* C22 witness: a string of 27 characters whose first character is one of
\* I, L, O, U was parsed and reported for its length.
C22_Witness ==
    /\ Len(text["a"]) = NULID_STRING_LENGTH + 1
    /\ text["a"][1] \in Confusables
    /\ parsed["a"] = InvalidLength(NULID_STRING_LENGTH, NULID_STRING_LENGTH + 1)

\* slot x holds an identifier from_nanos() assembled
Assembled(x) == parts[x] # NoParts

\* t mod 2^68 as a u128: the low 17 digits of t
Mod68(t) == Zeros(U128_BITS - TIMESTAMP_BITS) \o SubSeq(t, 16, 32)

\* p mod 2^60 as a u64: the low 15 digits of p
Mod60(p) == Zeros(U64_BITS - RANDOM_BITS) \o SubSeq(p, 2, 16)

\* C23: from_nanos(t, p) returns for every 128-bit t and 64-bit p the
\* identifier whose time prefix is t mod 2^68 and whose payload is
\* p mod 2^60; its value is time prefix * 2^60 + payload (the 17 digits of
\* the one followed by the 15 digits of the other), and the two fields
\* share no bit of the value.
C23_FromNanosMasks ==
    \A x \in Slots :
        Assembled(x)
        => /\ nanos(ids[x]) = Mod68(parts[x].nanos)
           /\ random(ids[x]) = Mod60(parts[x].random)
           /\ ids[x] = SubSeq(parts[x].nanos, 16, 32) \o SubSeq(parts[x].random, 2, 16)
           /\ Or(Shl(nanos(ids[x]), RANDOM_BITS), ZeroExt(random(ids[x]), U128_BITS)) = ids[x]
           /\ And(Shl(nanos(ids[x]), RANDOM_BITS), ZeroExt(random(ids[x]), U128_BITS)) = MIN

\* C23 witness: an identifier was assembled from the timestamp 2^68 and the
\* random word 2^64 - 1, both wider than their fields: its time prefix is
\* 0 and its payload 2^60 - 1.
C23_Witness ==
    /\ Assembled("a")
    /\ parts["a"].random = Ones(U64_BITS)
    /\ parts["a"].nanos # MIN
    /\ nanos(ids["a"]) = MIN
    /\ random(ids["a"]) = Mask(RANDOM_BITS, U64_BITS)

\* a is before b in the lexicographic order on (time prefix, payload)
FieldsLt(a, b) ==
    \/ Lt(nanos(a), nanos(b))
    \/ nanos(a) = nanos(b) /\ Lt(random(a), random(b))

\* C24: identifiers are ordered lexicographically on (time prefix,
\* payload): a < b exactly when the time prefix of a is smaller, or the
\* time prefixes are equal and the payload of a is smaller.
C24_OrderIsLexicographic ==
    ordering # "none"
    => /\ ordering = "Less" <=> FieldsLt(ids["a"], ids["b"])
       /\ ordering = "Greater" <=> FieldsLt(ids["b"], ids["a"])

\* C24 witness: an identifier with the smaller time prefix and the greater
\* payload was compared with another and found to be less.
C24_Witness ==
    /\ ordering = "Less"
    /\ Assembled("a") /\ Assembled("b")
    /\ Lt(nanos(ids["a"]), nanos(ids["b"]))
    /\ Lt(random(ids["b"]), random(ids["a"]))

\* C25: increment() returns Some(id + 1) for every identifier but MAX and
\* None for MAX; the identifier it returns is never smaller than or equal
\* to the one it was called on.
C25_IncrementIsSuccessor ==
    \A x \in Slots :
        succ[x].called
        => IF ids[x] = MAX
           THEN succ[x].result = None
           ELSE /\ IsSome(succ[x].result)
                /\ IsSuccessor(ids[x], Unwrap(succ[x].result))
                /\ Lt(ids[x], Unwrap(succ[x].result))

\* C25 witness: increment() was called on an identifier whose payload is
\* 2^60 - 1 and returned the identifier of the next time prefix with
\* payload 0, and it was called on MAX and returned None.
C25_Witness ==
    /\ succ["a"].called /\ succ["b"].called
    /\ random(ids["a"]) = Mask(RANDOM_BITS, U64_BITS)
    /\ IsSome(succ["a"].result)
    /\ random(Unwrap(succ["a"].result)) = Zeros(U64_BITS)
    /\ ids["b"] = MAX /\ succ["b"].result = None

\* C26: try_from() on a byte slice returns InvalidLength{expected: 16,
\* found: its length} for every slice that is not 16 bytes long, the empty
\* slice and longer slices included; for a slice of 16 bytes it returns
\* the identifier from_bytes() returns for those bytes, which has the
\* slice as its big-endian form.
C26_SliceLengthChecked ==
    \A x \in Slots :
        converted[x] # NoResult
        => IF Len(slice[x]) # 16
           THEN converted[x] = InvalidLength(16, Len(slice[x]))
           ELSE /\ converted[x].kind = "Ok"
                /\ \A k \in 0..15 : BigEndianByte(converted[x].value, k) = slice[x][k + 1]
                /\ rebuilt[x] # None => rebuilt[x] = Some(converted[x].value)

\* C26 witness: a slice of 17 bytes was refused for its length, and a
\* slice of 16 bytes whose first byte is 0x01 and last byte 0x10 was
\* converted to the identifier from_bytes() built from the same bytes.
C26_Witness ==
    /\ Len(slice["a"]) = 17 /\ converted["a"] = InvalidLength(16, 17)
    /\ Len(slice["b"]) = 16 /\ slice["b"][1] = 1 /\ slice["b"][16] = 16
    /\ converted["b"].kind = "Ok"
    /\ rebuilt["b"] = Some(converted["b"].value)

\* C27: now_nanos() returns SystemTimeError when the wall-clock read
\* fails or reports a time before the Unix epoch; it returns no timestamp
\* that was derived from a failed wall-clock read.
C27_WallFailureSurfaces ==
    \A t \in Threads :
        (now[t] # NoTime /\ wall_read = SystemTimeError) => now[t] = SystemTimeError

\* the time prefix of an identifier: its high 68 bits, 17 digits
TimePrefix(id) == SubSeq(id, 1, TIMESTAMP_BITS \div DIGIT_BITS)

\* the payload of an identifier: its low 60 bits, 15 digits
Payload(id) == SubSeq(id, (TIMESTAMP_BITS \div DIGIT_BITS) + 1, Len(id))

\* the low 68 bits of a clock value
Low68(ts) == SubSeq(ts, Len(ts) - (TIMESTAMP_BITS \div DIGIT_BITS) + 1, Len(ts))

\* thread t's last call emitted on the increment branch: the cell held an
\* emission and the candidate was not greater than it
Incremented(t) ==
    /\ Emitted(t)
    /\ obs[t].before # None
    /\ ~Gt(obs[t].cand, Unwrap(obs[t].before))

\* C28: an identifier emitted on the increment branch after the emission L
\* has the time prefix of L and the payload of L plus one, except when the
\* payload of L is 2^60 - 1: then it has the time prefix of L plus one and
\* payload 0.
C28_IncrementStaysInPrefix ==
    \A t \in Threads :
        Incremented(t)
        => IF Payload(Unwrap(obs[t].before)) = Ones(RANDOM_BITS)
           THEN /\ IsSuccessor(TimePrefix(Unwrap(obs[t].before)), TimePrefix(obs[t].id))
                /\ Payload(obs[t].id) = Zeros(RANDOM_BITS)
           ELSE /\ TimePrefix(obs[t].id) = TimePrefix(Unwrap(obs[t].before))
                /\ IsSuccessor(Payload(Unwrap(obs[t].before)), Payload(obs[t].id))

\* C28 witness: one call emitted on the increment branch after an emission
\* with payload 2^60 - 1 and moved to the next time prefix, and another
\* call emitted on the increment branch inside the time prefix.
C28_Witness ==
    \E t, u \in Threads :
        /\ Incremented(t)
        /\ random(Unwrap(obs[t].before)) = Mask(RANDOM_BITS, U64_BITS)
        /\ random(obs[t].id) = Zeros(U64_BITS)
        /\ Incremented(u)
        /\ nanos(obs[u].id) = nanos(Unwrap(obs[u].before))

\* id = max(cand, last + 1): id is one of the two and below neither
\* (id >= last + 1 is id > last)
IsMaxOfCandidateAndSuccessor(id, cand, last) ==
    /\ id = cand \/ IsSuccessor(last, id)
    /\ Le(cand, id)
    /\ Gt(id, last)

\* C29: a generate() that returns an identifier returns the candidate
\* when the cell is empty and max(candidate, last + 1) when the cell holds
\* last, and leaves that identifier in the cell; so the identifier is
\* never smaller than the candidate the call assembled.
C29_ReferenceRule ==
    \A t \in Threads :
        Emitted(t)
        => /\ IF obs[t].before = None
              THEN obs[t].id = obs[t].cand
              ELSE IsMaxOfCandidateAndSuccessor(obs[t].id, obs[t].cand, Unwrap(obs[t].before))
           /\ obs[t].after = Some(obs[t].id)
           /\ Le(obs[t].cand, obs[t].id)

\* C29 witness: one call found an emission in the cell and emitted its
\* candidate, which was greater than the successor of that emission;
\* another call emitted the successor, which was greater than its
\* candidate.
C29_Witness ==
    \E t, u \in Threads :
        /\ Emitted(t) /\ obs[t].before # None
        /\ obs[t].id = obs[t].cand
        /\ ~IsSuccessor(Unwrap(obs[t].before), obs[t].id)
        /\ Incremented(u)
        /\ Lt(obs[u].cand, obs[u].id)

\* C30: the time prefixes of the identifiers a generator emits without a
\* reset in between never decrease from one emission to the next, and the time prefix of each emitted
\* identifier is at least the clock value its call read, masked to 68
\* bits, also when that value is below earlier ones.
C30_TimePrefixNeverGoesBack ==
    /\ \A g \in built : \A i \in (epoch[g] + 1)..(Len(emitted[g]) - 1) :
           Le(TimePrefix(emitted[g][i]), TimePrefix(emitted[g][i + 1]))
    /\ \A t \in Threads :
           Emitted(t) => Le(Low68(obs[t].ts), TimePrefix(obs[t].id))

\* C30 witness: after two emissions a call read a clock value below the
\* time prefix in the cell and emitted an identifier whose time prefix is
\* that of the cell, above the value it read.
C30_Witness ==
    \E t \in Threads :
        /\ Emitted(t)
        /\ Len(EmittedSince(obs[t].gen)) >= 3
        /\ Lt(Low68(obs[t].ts), TimePrefix(Unwrap(obs[t].before)))
        /\ TimePrefix(obs[t].id) = TimePrefix(Unwrap(obs[t].before))
        /\ nanos(obs[t].id) = Zeros(U128_BITS - TIMESTAMP_BITS) \o TimePrefix(obs[t].id)

\* str::to_uppercase on a string of ASCII bytes
Upper(s) == [i \in 1..Len(s) |-> IF s[i] >= 97 /\ s[i] <= 122 THEN s[i] - 32 ELSE s[i]]

\* C31: parsing discards no information: a 26-character string that is
\* parsed successfully displays again, from the value parsed, as that
\* string in upper case, so two such strings that differ in more than
\* letter case are never parsed to the same value; a first character
\* whose value is above 7 is not truncated.
C31_ParseKeepsEveryBit ==
    /\ \A x \in Slots :
           (parsed[x].kind = "Ok" /\ Len(text[x]) = NULID_STRING_LENGTH)
           => encode_u128(parsed[x].value) = Upper(text[x])
    /\ \A x, y \in Slots :
           (/\ parsed[x].kind = "Ok" /\ parsed[y].kind = "Ok"
            /\ Len(text[x]) = NULID_STRING_LENGTH /\ Len(text[y]) = NULID_STRING_LENGTH
            /\ Upper(text[x]) # Upper(text[y]))
           => parsed[x].value # parsed[y].value

\* the 5-bit group of id at bit offset off: (id >> off) & 0x1F
GroupAt(id, off) == 16 * (Shr(id, off)[Len(id) - 1] % 2) + Shr(id, off)[Len(id)]

\* C32: the string displayed for an identifier has exactly 26 characters of
\* the 32-symbol alphabet; the character at index i (0 = first) is the
\* symbol of the 5-bit group at bit offset 5 * (25 - i) of the value, so
\* the first character is the symbol of a value in 0..7.
C32_EncoderLayout ==
    \A x \in Slots :
        Displayed(x)
        => /\ Len(text[x]) = 26
           /\ \A i \in 0..25 : text[x][i + 1] = ALPHABET[GroupAt(ids[x], 5 * (25 - i)) + 1]
           /\ \E v \in 0..7 : text[x][1] = ALPHABET[v + 1]

\* C32 witness: 2^128 - 1 is displayed with '7' as its first character and
\* 'Z' as every other, and 0x0123456789ABCDEFFEDCBA9876543210 is displayed
\* with "GG" (the groups 16, 16) as its last two characters.
C32_Witness ==
    /\ ids["a"] = MAX /\ Displayed("a")
    /\ text["a"][1] = 55
    /\ \A i \in 2..26 : text["a"][i] = 90
    /\ ids["b"][1] = 0 /\ ids["b"][2] = 1 /\ Displayed("b")
    /\ text["b"][25] = 71 /\ text["b"][26] = 71

\* C33: node_id() returns the node id the generator was constructed with,
\* at any time of the generator's life: no generate(), reset() or last()
\* changes it; and last() and node_id() leave the last-emitted cell as it
\* was.
C33_NodeIdFixed ==
    /\ \A g \in built : node_id[g] = configured[g]
    /\ \A t \in Threads :
           obs[t].op = "node_id"
           => /\ obs[t].kind = (IF configured[obs[t].gen] = None THEN "None" ELSE "Some")
              /\ obs[t].kind = "Some" => obs[t].id = Unwrap(configured[obs[t].gen])
    /\ \A t \in Threads :
           obs[t].op \in {"last", "node_id"} => obs[t].after = obs[t].before

\* C33 witness: a generator constructed with node id 1 emitted an
\* identifier, another thread's last() found it in the cell, and then
\* node_id() returned Some(1) with the identifier still in the cell.
C33_Witness ==
    \E t, u \in Threads :
        /\ obs[t].op = "node_id" /\ obs[t].kind = "Some"
        /\ obs[t].id = Word(1, U16_BITS)
        /\ obs[t].before # None
        /\ obs[u].op = "last" /\ obs[u].kind = "Some"
        /\ state[obs[t].gen] = obs[u].before

\* base_wall_nanos + (raw - base_quanta_nanos) for the ClockBase cb
BasePlusAdvance(cb, raw) ==
    wrapping_add(cb.base_wall_nanos,
                 ZeroExt(wrapping_sub(raw, cb.base_quanta_nanos), U128_BITS))

\* C34: the initialiser of CLOCK_BASE runs at most once, whichever way the
\* first calls of now_nanos() overlap, and the cell keeps what it built;
\* every result is the base's wall time plus the advance of the raw counter
\* since the base (the counter as the call read it, so not while the
\* thread's next call has read the counter again); with a raw counter that never goes back, no thread gets
\* a result below the one it got before.
C34_BaseCapturedOnce ==
    /\ Len(captured) <= 1
    /\ clock_base = (IF captured = <<>> THEN None ELSE Some(captured[1]))
    /\ \A t \in Threads :
           (now[t] # NoTime /\ clock_pc[t] # "add")
           => /\ captured # <<>>
              /\ now[t] = TimeOk(BasePlusAdvance(captured[1], Unwrap(current_quanta_nanos[t])))
    /\ \A t \in Threads : earlier[t] # NoTime => Le(earlier[t].value, now[t].value)

\* a thread ran the initialiser and has not returned yet, while the other
\* thread, which found the cell set, has returned twice, the second time
\* with a later reading
C34_Witness ==
    \E t, u \in Threads :
        /\ clock_pc[t] = "add" /\ now[t] = NoTime
        /\ Len(captured) = 1
        /\ earlier[u] # NoTime
        /\ Lt(earlier[u].value, now[u].value)

\* C35: after regress(d) the reading is the reading before it minus d, and
\* not above it; after advance(d) the reading is not below the reading
\* before it.
C35_RegressGoesBack ==
    /\ moved.op = "regress"
       => /\ wrapping_add(ZeroExt(mock_nanos, U128_BITS), moved.duration)
             = ZeroExt(moved.before, U128_BITS)
          /\ Le(mock_nanos, moved.before)
    /\ moved.op = "advance" => Le(moved.before, mock_nanos)

\* the bytes of a Random read as one big-endian number, in hex digits
BigEndian(b) ==
    [i \in 1..(2 * Len(b)) |-> IF i % 2 = 1 THEN b[(i + 1) \div 2] \div 16 ELSE b[i \div 2] % 16]

\* C36: increment() of a Random that is not all ones returns Ok and leaves
\* the value plus one, read as a big-endian number; increment() of the
\* Random of all ones returns RandomnessOverflow and leaves it all ones.
C36_OverflowKeepsValue ==
    bumped.called
    => IF \A i \in 1..RANDOM_BYTES : bumped.before[i] = 255
       THEN bumped.result = "RandomnessOverflow" /\ random_bytes = bumped.before
       ELSE bumped.result = "Ok" /\ IsSuccessor(BigEndian(bumped.before), BigEndian(random_bytes))

====
